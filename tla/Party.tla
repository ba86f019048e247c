------------------------------- MODULE Party -------------------------------
(***************************************************************************)
(* Parties of players (party.cpp, the party handlers of game.cpp and the   *)
(* party part of player.cpp).  Membership and invitations are kept twice,  *)
(* in the Party object and in every Player, as raw pointers; a party that  *)
(* is disbanded is freed, so an element of Parties is the address of an    *)
(* object and is used again.  Shared experience is a flag computed from    *)
(* the levels, positions and fights of the members and cached, to be       *)
(* refreshed whenever one of them changes.                                 *)
(*                                                                         *)
(* The scripts onLeave and onDisband are taken not to refuse, as the ones  *)
(* shipped with the server do not: leaveParty's result is ignored when a   *)
(* player is removed.                                                      *)
(***************************************************************************)
EXTENDS Integers, Sequences, FiniteSets, SequencesExt, Lists

CONSTANTS
  Players, Parties,
  Levels,    \* sets of numbers: levels and positions
  Places,
  None

ASSUME PartyAssumption ==
  /\ None \notin Players \cup Parties
  /\ Levels \subseteq Nat /\ Places \subseteq Int

Range30 == 30     \* of canUseSharedExperience

VARIABLES
  online,
  leader,           \* Party::leader, None for memory not in use
  memberList,       \* Party::memberList, without the leader
  inviteList,       \* Party::inviteList
  party,            \* Player::party
  invitePartyList,  \* Player::invitePartyList
  sharedExpActive, sharedExpEnabled,
  ticks,            \* Party::ticksMap: no entry, a recent one or an old one
  level, place

structure == <<leader, memberList, inviteList, party, invitePartyList>>
shared == <<sharedExpActive, sharedExpEnabled, ticks>>
vars == <<online, structure, shared, level, place>>

(* erase of what find finds; nobody is in a list twice.                     *)
Erased(s, p) ==
  IF p \in Elems(s) THEN RemoveAt(s, CHOOSE i \in 1..Len(s) : s[i] = p) ELSE s

TypeOK ==
  /\ online \subseteq Players
  /\ leader \in [Parties -> Players \cup {None}]
  /\ memberList \in [Parties -> Seq(Players)]
  /\ \A P \in Parties : leader[P] \notin Elems(memberList[P])
  /\ inviteList \in [Parties -> SUBSET Players]
  /\ party \in [Players -> Parties \cup {None}]
  /\ invitePartyList \in [Players -> SUBSET Parties]
  /\ sharedExpActive \in [Parties -> BOOLEAN]
  /\ sharedExpEnabled \in [Parties -> BOOLEAN]
  /\ ticks \in [Parties -> [Players -> {"none", "recent", "old"}]]
  /\ level \in [Players -> Levels]
  /\ place \in [Players -> Places]

Init ==
  /\ online = {}
  /\ leader = [P \in Parties |-> None]
  /\ memberList = [P \in Parties |-> <<>>]
  /\ inviteList = [P \in Parties |-> {}]
  /\ party = [p \in Players |-> None]
  /\ invitePartyList = [p \in Players |-> {}]
  /\ sharedExpActive = [P \in Parties |-> FALSE]
  /\ sharedExpEnabled = [P \in Parties |-> FALSE]
  /\ ticks = [P \in Parties |-> [p \in Players |-> "none"]]
  /\ level \in [Players -> Levels]
  /\ place \in [Players -> Places]

(* Variants of the operators below, each with one slip a change of this     *)
(* code could make; the runs must notice them.                              *)
ForgetsNothing(D) == invitePartyList
FreesLeaders(D, L, M) == {L[P] : P \in D}
NeverEmpty(ms, is) == FALSE
LeavesOnlyLeader(P, p) == leader[P] = p
KeepsInList(P, q) == <<leader[P]>> \o memberList[P]
NoRefresh(p) == {}

-----------------------------------------------------------------------------
(* Shared experience. *)

HighestLevel(ps, lv) ==
  CHOOSE l \in {lv[p] : p \in ps} : \A p \in ps : lv[p] <= l

(* ceil(2 * highest / 3) *)
MinLevel(ps, lv) == (2 * HighestLevel(ps, lv) + 2) \div 3

(* canEnableSharedExperience of a party with leader l and members ms: for    *)
(* each of them canUseSharedExperience.                                     *)
CanEnable(l, ms, tk, lv, pl) ==
  LET all == {l} \cup Elems(ms) IN
  /\ ms # <<>>
  /\ \A p \in all :
       /\ lv[p] >= MinLevel(all, lv)
       /\ pl[l] - pl[p] <= Range30 /\ pl[p] - pl[l] <= Range30
       /\ tk[p] = "recent"

(* updateSharedExperience in the parties of D, when leaders, members, ticks, *)
(* levels and positions have become L, M, T, lv and pl.                      *)
UpdateShared(D, L, M, T, lv, pl) ==
  [P \in Parties |->
     IF P \in D /\ sharedExpActive[P]
     THEN CanEnable(L[P], M[P], T[P], lv, pl) ELSE sharedExpEnabled[P]]

NoTicks == [p \in Players |-> "none"]

-----------------------------------------------------------------------------
(* Party::disband for the parties of D: the invitations every player keeps.  *)
Forget(D) ==
  [p \in Players |->
     invitePartyList[p] \ {P \in D : p \in inviteList[P]}]

(* The players set free, when the leaders were L and the members M by then.  *)
Freed(D, L, M) == UNION {{L[P]} \cup Elems(M[P]) : P \in D}

(* Party::empty *)
Empty(ms, is) == ms = <<>> /\ is = {}

-----------------------------------------------------------------------------
IsInviting(p, q) ==
  /\ party[p] # None
  /\ leader[party[p]] = p
  /\ q \in inviteList[party[p]]

(* playerInviteToParty: the first invitation creates the party. *)
InviteToParty(p, q) ==
  /\ p \in online /\ q \in online /\ p # q
  /\ ~IsInviting(q, p)
  /\ party[q] = None
  /\ \E P \in Parties :
       /\ \/ party[p] = P /\ leader[P] = p
          \/ party[p] = None /\ leader[P] = None
       /\ q \notin inviteList[P]
       /\ leader' = [leader EXCEPT ![P] = p]
       /\ party' = [party EXCEPT ![p] = P]
       /\ inviteList' = [inviteList EXCEPT ![P] = @ \cup {q}]
       /\ invitePartyList' = [invitePartyList EXCEPT ![q] = @ \cup {P}]
  /\ UNCHANGED <<online, memberList, shared, level, place>>

(* playerJoinParty, when the script onJoin agrees. *)
JoinParty(p, l) ==
  /\ p \in online /\ l \in online
  /\ IsInviting(l, p)
  /\ party[p] = None
  /\ LET P == party[l] IN
     /\ inviteList' = [inviteList EXCEPT ![P] = @ \ {p}]
     /\ memberList' = [memberList EXCEPT ![P] = Append(@, p)]
     /\ party' = [party EXCEPT ![p] = P]
     /\ invitePartyList' = [invitePartyList EXCEPT ![p] = @ \ {P}]
     /\ sharedExpEnabled' =
          UpdateShared({P}, leader, memberList', ticks, level, place)
  /\ UNCHANGED <<online, leader, sharedExpActive, ticks, level, place>>

(* playerRevokePartyInvitation: taking back the last invitation of a leader *)
(* without members disbands the party.                                      *)
RevokeInvitation(l, q) ==
  /\ l \in online /\ q \in online
  /\ IsInviting(l, q)
  /\ LET P == party[l]
         gone == Empty(memberList[P], inviteList[P] \ {q})
         D == IF gone THEN {P} ELSE {}
     IN /\ inviteList' = [inviteList EXCEPT ![P] = @ \ {q}]
        /\ invitePartyList' = [Forget(D) EXCEPT ![q] = @ \ {P}]
        /\ leader' = [leader EXCEPT ![P] = IF gone THEN None ELSE @]
        /\ party' = [p \in Players |->
                       IF p \in Freed(D, leader, memberList) THEN None
                       ELSE party[p]]
        /\ sharedExpActive' = [sharedExpActive EXCEPT ![P] = @ /\ ~gone]
        /\ sharedExpEnabled' = [sharedExpEnabled EXCEPT ![P] = @ /\ ~gone]
        /\ ticks' = [ticks EXCEPT ![P] = IF gone THEN NoTicks ELSE @]
  /\ UNCHANGED <<online, memberList, level, place>>

(* The list after passPartyLeadership to q: the old leader comes first. *)
PassedOn(P, q) == <<leader[P]>> \o Erased(memberList[P], q)

(* playerPassPartyLeadership. *)
PassPartyLeadership(l, q) ==
  /\ l \in online /\ q \in online /\ l # q
  /\ party[l] # None /\ leader[party[l]] = l
  /\ party[q] = party[l]
  /\ LET P == party[l] IN
     /\ leader' = [leader EXCEPT ![P] = q]
     /\ memberList' = [memberList EXCEPT ![P] = PassedOn(P, q)]
     /\ sharedExpEnabled' =
          UpdateShared({P}, leader', memberList', ticks, level, place)
  /\ UNCHANGED <<online, inviteList, party, invitePartyList, sharedExpActive,
                 ticks, level, place>>

-----------------------------------------------------------------------------
(* leaveParty.  A leader hands the party to the first member, unless that   *)
(* one would be alone in it or there is none.                               *)
MissingLeader(P, p) ==
  /\ leader[P] = p
  /\ \/ memberList[P] = <<>>
     \/ Len(memberList[P]) = 1 /\ inviteList[P] = {}

Heir(P) == memberList[P][1]

LeaderAfter(P, p) ==
  IF leader[P] = p /\ ~MissingLeader(P, p) THEN Heir(P) ELSE leader[P]

MembersAfter(P, p) ==
  IF leader[P] = p /\ ~MissingLeader(P, p) THEN Tail(memberList[P])
  ELSE Erased(memberList[P], p)

Disbands(P, p) ==
  MissingLeader(P, p) \/ Empty(MembersAfter(P, p), inviteList[P])

(* Player p leaves his party, if he is in one, and is taken off the invite  *)
(* lists of the parties in R, those left empty being disbanded as well.     *)
Leave(p, R) ==
  LET own == {party[p]} \ {None}
      invites == [P \in Parties |-> inviteList[P] \ IF P \in R THEN {p} ELSE {}]
      L == [P \in Parties |-> IF P \in own THEN LeaderAfter(P, p) ELSE leader[P]]
      M == [P \in Parties |-> IF P \in own THEN MembersAfter(P, p) ELSE memberList[P]]
      T == [P \in Parties |->
              IF P \in own THEN [ticks[P] EXCEPT ![p] = "none"] ELSE ticks[P]]
      D == {P \in own : Disbands(P, p)} \cup {P \in R : Empty(M[P], invites[P])}
  IN /\ leader' = [P \in Parties |-> IF P \in D THEN None ELSE L[P]]
     /\ memberList' = [P \in Parties |-> IF P \in D THEN <<>> ELSE M[P]]
     /\ inviteList' = [P \in Parties |-> IF P \in D THEN {} ELSE invites[P]]
     /\ party' = [q \in Players |->
                    IF (q = p /\ own # {}) \/ q \in Freed(D, L, M)
                    THEN None ELSE party[q]]
     /\ invitePartyList' = [Forget(D) EXCEPT ![p] = @ \ R]
     /\ sharedExpActive' = [P \in Parties |-> sharedExpActive[P] /\ P \notin D]
     /\ sharedExpEnabled' =
          [P \in Parties |-> P \notin D /\ UpdateShared(own, L, M, T, level, place)[P]]
     /\ ticks' = [P \in Parties |-> IF P \in D THEN NoTicks ELSE T[P]]

(* playerLeaveParty, out of a fight. *)
LeaveParty(p) ==
  /\ p \in online /\ party[p] # None
  /\ Leave(p, {})
  /\ UNCHANGED <<online, level, place>>

(* Player::onRemoveCreature: clearPartyInvitations, then leaveParty. *)
Logout(p) ==
  /\ p \in online
  /\ online' = online \ {p}
  /\ Leave(p, invitePartyList[p])
  /\ UNCHANGED <<level, place>>

Login(p) ==
  /\ p \notin online
  /\ online' = online \cup {p}
  /\ UNCHANGED <<structure, shared, level, place>>

-----------------------------------------------------------------------------
(* playerEnableSharedPartyExperience *)
SetSharedExperience(l, b) ==
  /\ l \in online /\ party[l] # None
  /\ LET P == party[l] IN
     /\ leader[P] = l
     /\ sharedExpActive[P] # b
     /\ sharedExpActive' = [sharedExpActive EXCEPT ![P] = b]
     /\ sharedExpEnabled' =
          [sharedExpEnabled EXCEPT ![P] =
             IF b THEN CanEnable(l, memberList[P], ticks[P], level, place) ELSE @]
  /\ UNCHANGED <<online, structure, ticks, level, place>>

OwnParty(p) == {party[p]} \ {None}

(* addExperience and removeExperience across a level. *)
ChangeLevel(p, n) ==
  /\ p \in online /\ level[p] # n
  /\ level' = [level EXCEPT ![p] = n]
  /\ sharedExpEnabled' =
       UpdateShared(OwnParty(p), leader, memberList, ticks, level', place)
  /\ UNCHANGED <<online, structure, sharedExpActive, ticks, place>>

(* onCreatureMove *)
Walk(p, x) ==
  /\ p \in online /\ place[p] # x
  /\ place' = [place EXCEPT ![p] = x]
  /\ sharedExpEnabled' =
       UpdateShared(OwnParty(p), leader, memberList, ticks, level, place')
  /\ UNCHANGED <<online, structure, sharedExpActive, ticks, level>>

(* updatePlayerTicks, from a fight or from healing a partner, and            *)
(* clearPlayerPoints, from onIdleStatus.                                    *)
SetTicks(p, t) ==
  /\ p \in online /\ party[p] # None
  /\ LET P == party[p] IN
     /\ t = "none" => ticks[P][p] # "none"
     /\ ticks' = [ticks EXCEPT ![P][p] = t]
     /\ sharedExpEnabled' =
          UpdateShared({P}, leader, memberList, ticks', level, place)
  /\ UNCHANGED <<online, structure, sharedExpActive, level, place>>

(* PZ_LOCKED milliseconds pass; nothing runs. *)
TicksAge(P, p) ==
  /\ ticks[P][p] = "recent"
  /\ ticks' = [ticks EXCEPT ![P][p] = "old"]
  /\ UNCHANGED <<online, structure, sharedExpActive, sharedExpEnabled, level,
                 place>>

Next ==
  \/ \E p, q \in Players :
       \/ InviteToParty(p, q) \/ JoinParty(p, q) \/ RevokeInvitation(p, q)
       \/ PassPartyLeadership(p, q)
  \/ \E p \in Players : LeaveParty(p) \/ Logout(p) \/ Login(p)
  \/ \E p \in Players, b \in BOOLEAN : SetSharedExperience(p, b)
  \/ \E p \in Players, n \in Levels : ChangeLevel(p, n)
  \/ \E p \in Players, x \in Places : Walk(p, x)
  \/ \E p \in Players, t \in {"none", "recent"} : SetTicks(p, t)
  \/ \E P \in Parties, p \in Players : TicksAge(P, p)

Spec == Init /\ [][Next]_vars

-----------------------------------------------------------------------------
InUse(P) == leader[P] # None

(* A player's party pointer and the party's lists say the same: whoever     *)
(* points at a party leads it or is in its member list, once, and the other *)
(* way round, and all of them are in the game.                              *)
MembershipMutual ==
  \A P \in Parties :
    LET all == {leader[P]} \cup Elems(memberList[P]) IN
    /\ {p \in Players : party[p] = P} = all \ {None}
    /\ InUse(P) => Cardinality(all) = Len(memberList[P]) + 1
    /\ all \ {None} \subseteq online

(* An invitation is known to both sides, names a party that still exists    *)
(* and a player in the game, and no player is invited where he belongs.     *)
InvitationsMutual ==
  \A P \in Parties, p \in Players :
    /\ p \in inviteList[P] <=> P \in invitePartyList[p]
    /\ p \in inviteList[P] => InUse(P) /\ p \in online /\ party[p] # P

(* A party nobody belongs to or is invited to, besides its leader, is gone. *)
NoEmptyParty ==
  \A P \in Parties :
    InUse(P) <=> memberList[P] # <<>> \/ inviteList[P] # {}

(* While experience is shared, every member has the level and is in range   *)
(* of the leader for it: whatever changes them refreshes the flag.  (The     *)
(* last fight of a member may be longer ago; no event marks that moment.)   *)
SharingIsFair ==
  \A P \in Parties :
    sharedExpActive[P] /\ sharedExpEnabled[P] =>
      CanEnable(leader[P], memberList[P], [p \in Players |-> "recent"],
                level, place)

(* The Party objects and the players' pointers to them agree, none of the   *)
(* pointers leads to freed memory, and what is cached is right.             *)
PartyInv ==
  TypeOK /\ MembershipMutual /\ InvitationsMutual /\ NoEmptyParty /\ SharingIsFair

(* A party with two members or more outlives any departure, the leader's    *)
(* included, and then goes to a member.                                     *)
PartySurvives ==
  [][\A P \in Parties :
       InUse(P) /\ Len(memberList[P]) >= 2 =>
         leader'[P] \in {leader[P]} \cup Elems(memberList[P])]_vars
=============================================================================
