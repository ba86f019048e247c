--------------------------- MODULE PlayersProofs ---------------------------
(***************************************************************************)
(* Proofs about Party, and about Trade for the values MCPlayers gives its  *)
(* constants and variables, for all players, parties, items and places.    *)
(***************************************************************************)
EXTENDS MCPlayers, ListFacts

(* erase of what find finds. *)
LEMMA ErasedFacts ==
  ASSUME NEW S, NEW s \in Seq(S), NEW p, Distinct(s)
  PROVE  /\ Erased(s, p) \in Seq(S) /\ Distinct(Erased(s, p))
         /\ Elems(Erased(s, p)) = Elems(s) \ {p}
         /\ Erased(s, p) = <<>> => Len(s) <= 1
<1>1. CASE p \notin Elems(s)
  BY <1>1, SeqFacts DEF Erased
<1>2. CASE p \in Elems(s)
  <2> DEFINE k == CHOOSE i \in 1..Len(s) : s[i] = p
             before == SubSeq(s, 1, k - 1)
             after == SubSeq(s, k + 1, Len(s))
             r == before \o after
  <2>1. k \in 1..Len(s) /\ s[k] = p /\ Len(s) \in Nat
    BY <1>2, SeqFacts DEF Elems
  <2>2. Erased(s, p) = r
    BY <1>2 DEF Erased, RemoveAt
  <2> HIDE DEF k
  <2>3. /\ \A i \in 1..(k - 1) : s[i] \in S
        /\ \A i \in (k + 1)..Len(s) : s[i] \in S
    BY <2>1, SeqFacts
  <2>4. /\ before \in Seq(S) /\ Len(before) = k - 1
        /\ \A i \in 1..(k - 1) : before[i] = s[i]
    BY <2>1, <2>3, SubSeqProperties
  <2>5. /\ after \in Seq(S) /\ Len(after) = Len(s) - k
        /\ \A i \in 1..(Len(s) - k) : after[i] = s[k + i]
    BY <2>1, <2>3, SubSeqProperties
  <2> HIDE DEF before, after
  <2>6. /\ r \in Seq(S) /\ Len(r) = Len(s) - 1
        /\ \A i \in 1..(Len(s) - 1) :
             r[i] = IF i <= k - 1 THEN before[i] ELSE after[i - (k - 1)]
    <3>1. /\ r \in Seq(S) /\ Len(r) = Len(before) + Len(after)
          /\ \A i \in 1..Len(before) + Len(after) :
               r[i] = IF i <= Len(before) THEN before[i]
                      ELSE after[i - Len(before)]
      BY <2>4, <2>5, ConcatProperties
    <3> HIDE DEF r
    <3>2. Len(before) + Len(after) = Len(s) - 1
      BY <2>1, <2>4, <2>5
    <3>3. QED
      BY <2>4, <3>1, <3>2
  <2> HIDE DEF r
  <2>7. \A i \in 1..(Len(s) - 1) : r[i] = IF i < k THEN s[i] ELSE s[i + 1]
    BY <2>1, <2>4, <2>5, <2>6
  <2>8. Distinct(r)
    BY <2>1, <2>6, <2>7 DEF Distinct
  <2>9. ASSUME NEW x \in Elems(r) PROVE x \in Elems(s) /\ x # p
    BY <2>1, <2>6, <2>7 DEF Elems, Distinct
  <2>10. ASSUME NEW x \in Elems(s), x # p PROVE x \in Elems(r)
    <3>1. PICK i \in 1..Len(s) : x = s[i]
      BY DEF Elems
    <3>2. CASE i < k
      BY <2>1, <2>6, <2>7, <3>1, <3>2 DEF Elems
    <3>3. CASE i > k
      <4>1. i - 1 \in 1..Len(r) /\ r[i - 1] = x
        BY <2>1, <2>6, <2>7, <3>1, <3>3
      <4>2. QED
        BY <4>1 DEF Elems
    <3>4. QED
      BY <2>1, <2>10, <3>1, <3>2, <3>3
  <2>11. r = <<>> => Len(s) <= 1
    BY <2>1, <2>6, SeqFacts
  <2>12. QED
    BY <2>2, <2>6, <2>8, <2>9, <2>10, <2>11
<1>3. QED
  BY <1>1, <1>2

-----------------------------------------------------------------------------
(* The inductive invariant: the parts of PartyInv, with the agreement of     *)
(* pointers and lists said of each player, and without counting.            *)

Listed == \A P \in Parties : Distinct(memberList[P])

Belongs ==
  \A P \in Parties, p \in Players :
    party[p] = P <=> p = leader[P] \/ p \in Elems(memberList[P])

MembersOnline == \A p \in Players : party[p] # None => p \in online

IInv ==
  /\ TypeOK /\ Listed /\ Belongs /\ MembersOnline
  /\ InvitationsMutual /\ NoEmptyParty /\ SharingIsFair

LEMMA Counting == ASSUME PartyAssumption PROVE IInv => PartyInv
<1> SUFFICES ASSUME IInv PROVE MembershipMutual
  BY DEF IInv, PartyInv
<1> USE PartyAssumption DEF PartyAssumption, IInv, TypeOK
<1> SUFFICES ASSUME NEW P \in Parties
             PROVE  LET all == {leader[P]} \cup Elems(memberList[P])
                    IN  /\ {p \in Players : party[p] = P} = all \ {None}
                        /\ InUse(P) => Cardinality(all) = Len(memberList[P]) + 1
                        /\ all \ {None} \subseteq online
  BY DEF MembershipMutual
<1> DEFINE all == {leader[P]} \cup Elems(memberList[P])
<1>1. /\ memberList[P] \in Seq(Players) /\ Distinct(memberList[P])
      /\ Elems(memberList[P]) \subseteq Players
      /\ leader[P] \in Players \cup {None}
      /\ leader[P] \notin Elems(memberList[P])
  BY ElemsEmpty DEF Listed
<1>2. {p \in Players : party[p] = P} = all \ {None}
  BY <1>1 DEF Belongs
<1>3. Cardinality(all) = Len(memberList[P]) + 1
  <2>1. /\ IsFiniteSet(Elems(memberList[P]))
        /\ Cardinality(Elems(memberList[P])) = Len(memberList[P])
    BY <1>1, CountedOnce
  <2>2. all = Elems(memberList[P]) \cup {leader[P]}
    OBVIOUS
  <2>3. QED
    BY <1>1, <2>1, <2>2, FS_AddElement
<1>4. all \ {None} \subseteq online
  BY <1>1 DEF Belongs, MembersOnline
<1>5. QED
  BY <1>2, <1>3, <1>4

LEMMA Initially == ASSUME PartyAssumption PROVE Init => IInv
BY NoElems, SeqFacts
DEF PartyAssumption, Init, IInv, TypeOK, Listed, Belongs, MembersOnline,
    InvitationsMutual, NoEmptyParty, SharingIsFair, InUse

-----------------------------------------------------------------------------
(* Shared experience. *)

Recent == [p \in Players |-> "recent"]

Fair(P) ==
  sharedExpActive[P] /\ sharedExpEnabled[P] =>
    CanEnable(leader[P], memberList[P], Recent, level, place)

LEMMA FairEach == SharingIsFair <=> \A P \in Parties : Fair(P)
BY DEF SharingIsFair, Fair, Recent

(* What the last fights of members are does not matter for Fair. *)
LEMMA RecentSuffices ==
  ASSUME NEW l \in Players, NEW ms \in Seq(Players), NEW tk, NEW lv, NEW pl,
         CanEnable(l, ms, tk, lv, pl)
  PROVE  CanEnable(l, ms, Recent, lv, pl)
BY ElemsEmpty DEF CanEnable, Recent

(* Only the levels and places of members matter. *)
LEMMA OnlyMembersMatter ==
  ASSUME NEW l, NEW ms, NEW tk, NEW lv, NEW pl, NEW lw, NEW pm,
         \A p \in {l} \cup Elems(ms) : lv[p] = lw[p] /\ pl[p] = pm[p],
         CanEnable(l, ms, tk, lv, pl)
  PROVE  CanEnable(l, ms, tk, lw, pm)
<1> DEFINE all == {l} \cup Elems(ms)
<1>1. {lv[p] : p \in all} = {lw[p] : p \in all}
  OBVIOUS
<1>2. \A x : (\A p \in all : lv[p] <= x) <=> (\A p \in all : lw[p] <= x)
  OBVIOUS
<1>3. HighestLevel(all, lv) = HighestLevel(all, lw)
  BY <1>1, <1>2 DEF HighestLevel
<1>4. MinLevel(all, lv) = MinLevel(all, lw)
  BY <1>3 DEF MinLevel
<1>5. QED
  BY <1>4 DEF CanEnable
-----------------------------------------------------------------------------
(* One lemma for each action. *)

LEMMA Inviting ==
  ASSUME PartyAssumption, IInv, NEW p \in Players, NEW q \in Players,
         InviteToParty(p, q)
  PROVE  IInv'
<1> USE PartyAssumption DEF PartyAssumption, IInv, TypeOK, shared
<1>1. PICK P \in Parties :
        /\ \/ party[p] = P /\ leader[P] = p
           \/ party[p] = None /\ leader[P] = None
        /\ q \notin inviteList[P]
        /\ leader' = [leader EXCEPT ![P] = p]
        /\ party' = [party EXCEPT ![p] = P]
        /\ inviteList' = [inviteList EXCEPT ![P] = @ \cup {q}]
        /\ invitePartyList' = [invitePartyList EXCEPT ![q] = @ \cup {P}]
  BY DEF InviteToParty
<1>2. /\ p \in online /\ q \in online /\ p # q /\ party[q] = None
      /\ UNCHANGED <<online, memberList, shared, level, place>>
  BY DEF InviteToParty
<1>3. leader[P] = None => memberList[P] = <<>> /\ inviteList[P] = {}
  BY DEF NoEmptyParty, InUse
<1>4. p \notin Elems(memberList[P])
  BY <1>1, <1>3, NoElems
<1>5. TypeOK'
  BY <1>1, <1>2, <1>4
<1>6. Listed' /\ MembersOnline'
  BY <1>1, <1>2 DEF Listed, MembersOnline
<1>7. Belongs'
  BY <1>1, <1>2, <1>3, NoElems DEF Belongs
<1>8. InvitationsMutual'
  BY <1>1, <1>2, <1>3 DEF InvitationsMutual, InUse
<1>9. NoEmptyParty'
  BY <1>1, <1>2 DEF NoEmptyParty, InUse
<1>10. SharingIsFair'
  <2> SUFFICES ASSUME NEW Q \in Parties, sharedExpActive[Q], sharedExpEnabled[Q]
               PROVE  CanEnable(leader'[Q], memberList[Q], Recent, level, place)
    BY <1>2 DEF SharingIsFair, Recent
  <2>1. CanEnable(leader[Q], memberList[Q], Recent, level, place)
    BY DEF SharingIsFair, Recent
  <2>2. memberList[Q] # <<>>
    BY <2>1 DEF CanEnable
  <2>3. leader'[Q] = leader[Q]
    BY <1>1, <1>3, <2>2
  <2>4. QED
    BY <2>1, <2>3
<1>11. QED
  BY <1>5, <1>6, <1>7, <1>8, <1>9, <1>10

LEMMA Joining ==
  ASSUME PartyAssumption, IInv, NEW p \in Players, NEW l \in Players,
         JoinParty(p, l)
  PROVE  IInv'
<1> USE PartyAssumption DEF PartyAssumption, IInv, TypeOK
<1> DEFINE P == party[l]
<1>1. /\ p \in online /\ P \in Parties /\ leader[P] = l /\ p \in inviteList[P]
      /\ party[p] = None
      /\ inviteList' = [inviteList EXCEPT ![P] = @ \ {p}]
      /\ memberList' = [memberList EXCEPT ![P] = Append(@, p)]
      /\ party' = [party EXCEPT ![p] = P]
      /\ invitePartyList' = [invitePartyList EXCEPT ![p] = @ \ {P}]
      /\ sharedExpEnabled' =
           UpdateShared({P}, leader, memberList', ticks, level, place)
      /\ UNCHANGED <<online, leader, sharedExpActive, ticks, level, place>>
  BY DEF JoinParty, IsInviting
<1> HIDE DEF P
<1>2. p \notin Elems(memberList[P]) /\ p # leader[P]
  BY <1>1 DEF Belongs
<1>3. /\ Append(memberList[P], p) \in Seq(Players)
      /\ Distinct(Append(memberList[P], p))
      /\ Elems(Append(memberList[P], p)) = Elems(memberList[P]) \cup {p}
      /\ Append(memberList[P], p) # <<>>
  <2>1. memberList[P] \in Seq(Players) /\ Distinct(memberList[P])
    BY <1>1 DEF Listed
  <2>2. /\ Append(memberList[P], p) \in Seq(Players)
        /\ Distinct(Append(memberList[P], p))
        /\ Elems(Append(memberList[P], p)) = Elems(memberList[P]) \cup {p}
    BY <1>2, <2>1, AppendFacts
  <2>3. Append(memberList[P], p) # <<>>
    BY <2>2, ElemsEmpty
  <2>4. QED
    BY <2>2, <2>3
<1>4. TypeOK'
  BY <1>1, <1>2, <1>3 DEF UpdateShared, CanEnable
<1>5. Listed' /\ MembersOnline'
  BY <1>1, <1>3 DEF Listed, MembersOnline
<1>6. Belongs'
  BY <1>1, <1>2, <1>3 DEF Belongs
<1>7. InvitationsMutual'
  BY <1>1 DEF InvitationsMutual, InUse
<1>8. NoEmptyParty'
  BY <1>1, <1>3 DEF NoEmptyParty, InUse
<1>9. SharingIsFair'
  <2> SUFFICES ASSUME NEW Q \in Parties, sharedExpActive[Q], sharedExpEnabled'[Q]
               PROVE  CanEnable(leader[Q], memberList'[Q], Recent, level, place)
    BY <1>1 DEF SharingIsFair, Recent
  <2>1. CASE Q = P
    <3>1. CanEnable(leader[P], memberList'[P], ticks[P], level, place)
      BY <1>1, <2>1 DEF UpdateShared
    <3>2. memberList'[P] \in Seq(Players) /\ leader[P] \in Players
      BY <1>1, <1>3
    <3>3. QED
      BY <2>1, <3>1, <3>2, RecentSuffices
  <2>2. CASE Q # P
    BY <1>1, <2>2 DEF UpdateShared, SharingIsFair, Recent
  <2>3. QED
    BY <2>1, <2>2
<1>10. QED
  BY <1>4, <1>5, <1>6, <1>7, <1>8, <1>9

LEMMA Revoking ==
  ASSUME PartyAssumption, IInv, NEW l \in Players, NEW q \in Players,
         RevokeInvitation(l, q)
  PROVE  IInv'
<1> USE PartyAssumption DEF PartyAssumption, IInv, TypeOK
<1> DEFINE P == party[l]
           gone == Empty(memberList[P], inviteList[P] \ {q})
<1>1. /\ P \in Parties /\ leader[P] = l /\ q \in inviteList[P]
      /\ UNCHANGED <<online, memberList, level, place>>
  BY DEF RevokeInvitation, IsInviting
<1>2. /\ inviteList' = [inviteList EXCEPT ![P] = @ \ {q}]
      /\ invitePartyList' = [Forget(IF gone THEN {P} ELSE {}) EXCEPT ![q] = @ \ {P}]
      /\ leader' = [leader EXCEPT ![P] = IF gone THEN None ELSE @]
      /\ party' = [p \in Players |->
                     IF p \in Freed(IF gone THEN {P} ELSE {}, leader, memberList)
                     THEN None ELSE party[p]]
      /\ sharedExpActive' = [sharedExpActive EXCEPT ![P] = @ /\ ~gone]
      /\ sharedExpEnabled' = [sharedExpEnabled EXCEPT ![P] = @ /\ ~gone]
      /\ ticks' = [ticks EXCEPT ![P] = IF gone THEN NoTicks ELSE @]
  BY DEF RevokeInvitation
<1> HIDE DEF P
<1>3. CASE gone
  <2>1. memberList[P] = <<>> /\ inviteList[P] = {q}
    BY <1>1, <1>3 DEF Empty
  <2>2. Freed({P}, leader, memberList) = {l}
    BY <1>1, <2>1, NoElems DEF Freed
  <2>3. \A p \in Players : p # q => Forget({P})[p] = invitePartyList[p]
    BY <2>1 DEF Forget
  <2>4. Forget({P})[q] \ {P} = invitePartyList[q] \ {P}
    BY DEF Forget
  <2>5. /\ inviteList' = [inviteList EXCEPT ![P] = {}]
        /\ leader' = [leader EXCEPT ![P] = None]
        /\ party' = [p \in Players |-> IF p = l THEN None ELSE party[p]]
        /\ invitePartyList' = [invitePartyList EXCEPT ![q] = @ \ {P}]
        /\ sharedExpActive' = [sharedExpActive EXCEPT ![P] = FALSE]
        /\ sharedExpEnabled' = [sharedExpEnabled EXCEPT ![P] = FALSE]
        /\ ticks' = [ticks EXCEPT ![P] = NoTicks]
    <3>1. [Forget({P}) EXCEPT ![q] = @ \ {P}]
            = [invitePartyList EXCEPT ![q] = @ \ {P}]
      BY <2>3, <2>4 DEF Forget
    <3>2. QED
      BY <1>2, <1>3, <2>1, <2>2, <3>1
  <2>6. TypeOK'
    BY <1>1, <2>1, <2>5, NoElems DEF NoTicks
  <2>7. Listed' /\ MembersOnline'
    BY <1>1, <2>5 DEF Listed, MembersOnline
  <2>8. Belongs'
    BY <1>1, <2>1, <2>5, NoElems DEF Belongs
  <2>9. InvitationsMutual'
    BY <1>1, <2>1, <2>5 DEF InvitationsMutual, InUse
  <2>10. NoEmptyParty'
    BY <1>1, <2>1, <2>5 DEF NoEmptyParty, InUse
  <2>11. SharingIsFair'
    BY <1>1, <2>5 DEF SharingIsFair
  <2>12. QED
    BY <2>6, <2>7, <2>8, <2>9, <2>10, <2>11
<1>4. CASE ~gone
  <2>1. memberList[P] # <<>> \/ inviteList[P] \ {q} # {}
    BY <1>4 DEF Empty
  <2>2. /\ Freed({}, leader, memberList) = {}
        /\ Forget({}) = invitePartyList
    BY DEF Freed, Forget
  <2>3. /\ inviteList' = [inviteList EXCEPT ![P] = @ \ {q}]
        /\ invitePartyList' = [invitePartyList EXCEPT ![q] = @ \ {P}]
        /\ UNCHANGED <<leader, party, sharedExpActive, sharedExpEnabled, ticks>>
    <3>1. /\ inviteList' = [inviteList EXCEPT ![P] = @ \ {q}]
          /\ invitePartyList' = [invitePartyList EXCEPT ![q] = @ \ {P}]
          /\ party' = [p \in Players |-> party[p]]
      BY <1>2, <1>4, <2>2
    <3>2. UNCHANGED <<leader, sharedExpActive, sharedExpEnabled, ticks>>
      BY <1>2, <1>4
    <3>3. QED
      BY <3>1, <3>2
  <2>4. TypeOK' /\ Listed' /\ MembersOnline' /\ Belongs'
    <3>1. TypeOK'
      BY <1>1, <2>3
    <3>2. Listed' /\ MembersOnline' /\ Belongs'
      BY <1>1, <2>3 DEF Listed, MembersOnline, Belongs
    <3>3. QED
      BY <3>1, <3>2
  <2>5. InvitationsMutual'
    BY <1>1, <2>3 DEF InvitationsMutual, InUse
  <2>6. NoEmptyParty'
    BY <1>1, <2>1, <2>3 DEF NoEmptyParty, InUse
  <2>7. SharingIsFair'
    BY <1>1, <2>3 DEF SharingIsFair
  <2>8. QED
    BY <2>4, <2>5, <2>6, <2>7
<1>5. QED
  BY <1>3, <1>4

LEMMA Passing ==
  ASSUME PartyAssumption, IInv, NEW l \in Players, NEW q \in Players,
         PassPartyLeadership(l, q)
  PROVE  IInv'
<1> USE PartyAssumption DEF PartyAssumption, IInv, TypeOK
<1> DEFINE P == party[l]
           rest == Erased(memberList[P], q)
<1>1. /\ l # q /\ P \in Parties /\ leader[P] = l /\ party[q] = P
      /\ leader' = [leader EXCEPT ![P] = q]
      /\ memberList' = [memberList EXCEPT ![P] = <<l>> \o rest]
      /\ sharedExpEnabled' =
           UpdateShared({P}, leader', memberList', ticks, level, place)
      /\ UNCHANGED <<online, inviteList, party, invitePartyList, sharedExpActive,
                     ticks, level, place>>
  BY DEF PassPartyLeadership, PassedOn
<1> HIDE DEF P
<1>2. q \in Elems(memberList[P]) /\ l \notin Elems(memberList[P])
  BY <1>1 DEF Belongs
<1>3. /\ rest \in Seq(Players) /\ Distinct(rest)
      /\ Elems(rest) = Elems(memberList[P]) \ {q}
  BY <1>1, ErasedFacts DEF Listed
<1> HIDE DEF rest
<1>4. /\ <<l>> \o rest \in Seq(Players) /\ Distinct(<<l>> \o rest)
      /\ Elems(<<l>> \o rest) = (Elems(memberList[P]) \ {q}) \cup {l}
      /\ <<l>> \o rest # <<>>
  BY <1>2, <1>3, ConsFacts
<1>5. TypeOK'
  BY <1>1, <1>2, <1>4 DEF UpdateShared, CanEnable
<1>6. Listed' /\ MembersOnline'
  BY <1>1, <1>4 DEF Listed, MembersOnline
<1>7. Belongs'
  <2> SUFFICES ASSUME NEW Q \in Parties, NEW x \in Players
               PROVE  party'[x] = Q <=> x = leader'[Q] \/ x \in Elems(memberList'[Q])
    BY DEF Belongs
  <2>1. CASE Q = P
    <3>1. /\ leader'[Q] = q /\ party'[x] = party[x]
          /\ Elems(memberList'[Q]) = (Elems(memberList[P]) \ {q}) \cup {l}
      BY <1>1, <1>4, <2>1
    <3>2. party[x] = P <=> x = l \/ x \in Elems(memberList[P])
      BY <1>1 DEF Belongs
    <3>3. QED
      BY <1>2, <2>1, <3>1, <3>2
  <2>2. CASE Q # P
    BY <1>1, <2>2 DEF Belongs
  <2>3. QED
    BY <2>1, <2>2
<1>8. InvitationsMutual'
  BY <1>1 DEF InvitationsMutual, InUse
<1>9. NoEmptyParty'
  BY <1>1, <1>2, <1>4, NoElems DEF NoEmptyParty, InUse
<1>10. SharingIsFair'
  <2> SUFFICES ASSUME NEW Q \in Parties, sharedExpActive[Q], sharedExpEnabled'[Q]
               PROVE  CanEnable(leader'[Q], memberList'[Q], Recent, level, place)
    BY <1>1 DEF SharingIsFair, Recent
  <2>1. CASE Q = P
    <3>1. CanEnable(leader'[P], memberList'[P], ticks[P], level, place)
      BY <1>1, <2>1 DEF UpdateShared
    <3>2. memberList'[P] \in Seq(Players) /\ leader'[P] \in Players
      BY <1>1, <1>4
    <3>3. QED
      BY <2>1, <3>1, <3>2, RecentSuffices
  <2>2. CASE Q # P
    BY <1>1, <2>2 DEF UpdateShared, SharingIsFair, Recent
  <2>3. QED
    BY <2>1, <2>2
<1>11. QED
  BY <1>5, <1>6, <1>7, <1>8, <1>9, <1>10

(* What becomes of a party that p leaves: the members of it stay, but p. *)
LEMMA Departure ==
  ASSUME PartyAssumption, IInv, NEW P \in Parties, NEW p \in Players,
         party[p] = P
  PROVE  /\ MembersAfter(P, p) \in Seq(Players) /\ Distinct(MembersAfter(P, p))
         /\ LeaderAfter(P, p) \in Players
         /\ LeaderAfter(P, p) \notin Elems(MembersAfter(P, p))
         /\ {LeaderAfter(P, p)} \cup Elems(MembersAfter(P, p)) \cup {p}
              = {leader[P]} \cup Elems(memberList[P])
         /\ ~MissingLeader(P, p) =>
              p # LeaderAfter(P, p) /\ p \notin Elems(MembersAfter(P, p))
<1> USE PartyAssumption DEF PartyAssumption, IInv, TypeOK
<1> DEFINE l == leader[P]
           ms == memberList[P]
<1>1. /\ l \in Players \cup {None} /\ ms \in Seq(Players) /\ Distinct(ms)
      /\ l \notin Elems(ms) /\ Elems(ms) \subseteq Players
      /\ ms # <<>> \/ inviteList[P] # {} => l \in Players
      /\ ms = <<>> /\ inviteList[P] = {} => l = None
      /\ p = l \/ p \in Elems(ms)
  BY ElemsEmpty DEF Listed, NoEmptyParty, InUse, Belongs
<1>2. ms = <<>> => Elems(ms) = {}
  BY NoElems
<1>3. /\ Erased(ms, p) \in Seq(Players) /\ Distinct(Erased(ms, p))
      /\ Elems(Erased(ms, p)) = Elems(ms) \ {p}
  BY <1>1, ErasedFacts
<1>4. CASE l = p /\ ~MissingLeader(P, p)
  <2>1. ms # <<>>
    BY <1>4 DEF MissingLeader
  <2>2. /\ Tail(ms) \in Seq(Players) /\ Distinct(Tail(ms))
        /\ ms[1] \in Elems(ms)
        /\ Elems(Tail(ms)) = Elems(ms) \ {ms[1]}
    BY <1>1, <2>1, TailFacts
  <2>3. LeaderAfter(P, p) = ms[1] /\ MembersAfter(P, p) = Tail(ms)
    BY <1>4 DEF LeaderAfter, MembersAfter, Heir
  <2>4. QED
    BY <1>1, <1>4, <2>2, <2>3
<1>5. CASE ~(l = p /\ ~MissingLeader(P, p))
  <2>1. LeaderAfter(P, p) = l /\ MembersAfter(P, p) = Erased(ms, p)
    BY <1>5 DEF LeaderAfter, MembersAfter
  <2>2. l \in Players
    BY <1>1, <1>2
  <2>3. ~MissingLeader(P, p) => l # p
    BY <1>5
  <2>4. QED
    BY <1>1, <1>3, <2>1, <2>2, <2>3
<1>6. QED
  BY <1>4, <1>5

Own(p) == {party[p]} \ {None}

(* The parties disbanded when p leaves his own and the invitations of R. *)
Disbanded(p, R) ==
  {P \in Own(p) : Disbands(P, p)}
    \cup {P \in R : memberList[P] = <<>> /\ inviteList[P] \subseteq {p}}

(* The effect of Leave, said of each party and of each player. *)
Left(p, R) ==
  /\ Own(p) \subseteq Parties
  /\ R \subseteq Parties \ Own(p) /\ R \subseteq invitePartyList[p]
  /\ Disbanded(p, R) \subseteq Own(p) \cup R
  /\ \A P \in Parties :
       /\ P \in Disbanded(p, R) =>
            /\ leader'[P] = None /\ memberList'[P] = <<>>
            /\ inviteList'[P] = {} /\ ~sharedExpActive'[P]
       /\ P \notin Disbanded(p, R) /\ P \in Own(p) =>
            /\ leader'[P] = LeaderAfter(P, p)
            /\ memberList'[P] = MembersAfter(P, p)
            /\ inviteList'[P] = inviteList[P]
            /\ ~MissingLeader(P, p)
            /\ memberList'[P] # <<>> \/ inviteList[P] # {}
            /\ sharedExpActive'[P] /\ sharedExpEnabled'[P] =>
                 CanEnable(leader'[P], memberList'[P], ticks'[P], level', place')
       /\ P \notin Disbanded(p, R) /\ P \notin Own(p) =>
            /\ leader'[P] = leader[P] /\ memberList'[P] = memberList[P]
            /\ inviteList'[P] = inviteList[P] \ IF P \in R THEN {p} ELSE {}
            /\ sharedExpActive'[P] = sharedExpActive[P]
            /\ sharedExpEnabled'[P] = sharedExpEnabled[P]
  /\ party' = [q \in Players |->
                 IF q = p \/ party[q] \in Disbanded(p, R)
                 THEN None ELSE party[q]]
  /\ invitePartyList' = [q \in Players |->
                 invitePartyList[q] \ (Disbanded(p, R) \cup IF q = p THEN R ELSE {})]
  /\ sharedExpActive' \in [Parties -> BOOLEAN]
  /\ sharedExpEnabled' \in [Parties -> BOOLEAN]
  /\ ticks' \in [Parties -> [Players -> {"none", "recent", "old"}]]
  /\ leader' = [P \in Parties |-> leader'[P]]
  /\ memberList' = [P \in Parties |-> memberList'[P]]
  /\ inviteList' = [P \in Parties |-> inviteList'[P]]

LEMMA Leaving ==
  ASSUME PartyAssumption, IInv, NEW p \in Players,
         NEW R \in {{}, invitePartyList[p]}, Leave(p, R),
         UNCHANGED <<level, place>>
  PROVE  Left(p, R)
<1> USE PartyAssumption DEF PartyAssumption, IInv, TypeOK
<1> DEFINE own == Own(p)
           invites == [P \in Parties |-> inviteList[P] \ IF P \in R THEN {p} ELSE {}]
           L == [P \in Parties |-> IF P \in own THEN LeaderAfter(P, p) ELSE leader[P]]
           M == [P \in Parties |-> IF P \in own THEN MembersAfter(P, p) ELSE memberList[P]]
           T == [P \in Parties |->
                   IF P \in own THEN [ticks[P] EXCEPT ![p] = "none"] ELSE ticks[P]]
           D == {P \in own : Disbands(P, p)} \cup {P \in R : Empty(M[P], invites[P])}
<1>1. /\ leader' = [P \in Parties |-> IF P \in D THEN None ELSE L[P]]
      /\ memberList' = [P \in Parties |-> IF P \in D THEN <<>> ELSE M[P]]
      /\ inviteList' = [P \in Parties |-> IF P \in D THEN {} ELSE invites[P]]
      /\ party' = [q \in Players |->
                     IF (q = p /\ own # {}) \/ q \in Freed(D, L, M)
                     THEN None ELSE party[q]]
      /\ invitePartyList' = [Forget(D) EXCEPT ![p] = @ \ R]
      /\ sharedExpActive' = [P \in Parties |-> sharedExpActive[P] /\ P \notin D]
      /\ sharedExpEnabled' =
           [P \in Parties |-> P \notin D /\ UpdateShared(own, L, M, T, level, place)[P]]
      /\ ticks' = [P \in Parties |-> IF P \in D THEN NoTicks ELSE T[P]]
  BY DEF Leave, Own
<1>2. own \subseteq Parties /\ \A P \in own : party[p] = P
  BY DEF Own
<1>3. R \subseteq Parties \ own /\ R \subseteq invitePartyList[p]
  BY DEF InvitationsMutual, Own
<1>4. D = Disbanded(p, R)
  BY <1>2, <1>3 DEF Disbanded, Empty
<1>5. \A P \in D : P \in own \/ P \in R
  OBVIOUS
<1>6. \A q \in Players : q \in Freed(D, L, M) \/ (q = p /\ own # {})
                            <=> party[q] \in D \/ (q = p /\ own # {})
  <2> SUFFICES ASSUME NEW q \in Players, ~(q = p /\ own # {})
               PROVE  q \in Freed(D, L, M) <=> party[q] \in D
    OBVIOUS
  <2>1. ASSUME NEW P \in D
        PROVE  q \in {L[P]} \cup Elems(M[P]) <=> party[q] = P
    <3>1. party[q] = P <=> q \in {leader[P]} \cup Elems(memberList[P])
      BY <1>2, <1>3, <1>5 DEF Belongs
    <3>2. CASE P \in own
      <4>1. q # p /\ L[P] = LeaderAfter(P, p) /\ M[P] = MembersAfter(P, p)
        BY <1>2, <3>2
      <4>2. {LeaderAfter(P, p)} \cup Elems(MembersAfter(P, p)) \cup {p}
              = {leader[P]} \cup Elems(memberList[P])
        BY <1>2, <3>2, Departure
      <4>3. QED
        BY <3>1, <4>1, <4>2
    <3>3. CASE P \notin own
      BY <1>3, <1>5, <3>1, <3>3
    <3>4. QED
      BY <3>2, <3>3
  <2> HIDE DEF D, L, M
  <2>2. QED
    BY <2>1 DEF Freed
<1> DEFINE free(q) == q \in Freed(D, L, M) \/ (q = p /\ own # {})
<1>7. party' = [q \in Players |->
                  IF q = p \/ party[q] \in D THEN None ELSE party[q]]
  <2>1. party' = [q \in Players |-> IF free(q) THEN None ELSE party[q]]
    BY <1>1
  <2>2. own = {} => party[p] = None
    BY DEF Own
  <2> HIDE DEF D, L, M
  <2>3. \A q \in Players : (IF free(q) THEN None ELSE party[q])
           = IF q = p \/ party[q] \in D THEN None ELSE party[q]
    BY <1>6, <2>2
  <2>4. QED
    BY <2>1, <2>3
<1> HIDE DEF free
<1>8. invitePartyList' = [q \in Players |->
                    invitePartyList[q] \ (D \cup IF q = p THEN R ELSE {})]
  <2>1. D \subseteq Parties
    BY <1>2, <1>3
  <2> HIDE DEF D
  <2>2. \A q \in Players : Forget(D)[q] = invitePartyList[q] \ D
    BY <2>1 DEF Forget, InvitationsMutual
  <2>3. invitePartyList' = [q \in Players |->
           IF q = p THEN Forget(D)[q] \ R ELSE Forget(D)[q]]
    BY <1>1 DEF Forget
  <2>4. QED
    BY <2>2, <2>3
<1>9. /\ sharedExpActive' \in [Parties -> BOOLEAN]
      /\ sharedExpEnabled' \in [Parties -> BOOLEAN]
  <2> HIDE DEF D, L, M, T
  <2>1. QED
    BY <1>1
<1>10. ticks' \in [Parties -> [Players -> {"none", "recent", "old"}]]
  <2>1. T \in [Parties -> [Players -> {"none", "recent", "old"}]]
    OBVIOUS
  <2> HIDE DEF D, L, M, T
  <2>2. QED
    BY <1>1, <2>1 DEF NoTicks
<1>11. ASSUME NEW P \in Parties
       PROVE  /\ P \in D =>
                   /\ leader'[P] = None /\ memberList'[P] = <<>>
                   /\ inviteList'[P] = {} /\ ~sharedExpActive'[P]
              /\ P \notin D =>
                   /\ leader'[P] = L[P] /\ memberList'[P] = M[P]
                   /\ inviteList'[P] = invites[P]
                   /\ sharedExpActive'[P] = sharedExpActive[P]
                   /\ sharedExpEnabled'[P]
                        = UpdateShared(own, L, M, T, level, place)[P]
                   /\ ticks'[P] = T[P]
  <2> HIDE DEF D, L, M, T, invites
  <2>1. UpdateShared(own, L, M, T, level, place)[P] \in BOOLEAN
    BY DEF UpdateShared, CanEnable
  <2>2. QED
    BY <1>1, <2>1
<1>12. ASSUME NEW P \in Parties, P \notin D, P \in own
       PROVE  /\ leader'[P] = LeaderAfter(P, p)
              /\ memberList'[P] = MembersAfter(P, p)
              /\ inviteList'[P] = inviteList[P]
              /\ ~MissingLeader(P, p)
              /\ memberList'[P] # <<>> \/ inviteList[P] # {}
              /\ sharedExpActive'[P] /\ sharedExpEnabled'[P] =>
                   CanEnable(leader'[P], memberList'[P], ticks'[P], level', place')
  <2>1. ~Disbands(P, p) /\ P \notin R
    BY <1>3, <1>12
  <2>2. L[P] = LeaderAfter(P, p) /\ M[P] = MembersAfter(P, p)
        /\ invites[P] = inviteList[P]
    BY <1>12, <2>1
  <2> HIDE DEF D, L, M, T, invites
  <2>3. sharedExpActive[P] => UpdateShared(own, L, M, T, level, place)[P]
                                = CanEnable(L[P], M[P], T[P], level, place)
    BY <1>12 DEF UpdateShared
  <2>4. QED
    BY <1>11, <1>12, <2>1, <2>2, <2>3 DEF Disbands, Empty
<1>13. ASSUME NEW P \in Parties, P \notin D, P \notin own
       PROVE  /\ leader'[P] = leader[P] /\ memberList'[P] = memberList[P]
              /\ inviteList'[P] = inviteList[P] \ IF P \in R THEN {p} ELSE {}
              /\ sharedExpActive'[P] = sharedExpActive[P]
              /\ sharedExpEnabled'[P] = sharedExpEnabled[P]
  <2>1. L[P] = leader[P] /\ M[P] = memberList[P]
        /\ invites[P] = inviteList[P] \ IF P \in R THEN {p} ELSE {}
    BY <1>13
  <2> HIDE DEF D, L, M, T, invites
  <2>2. UpdateShared(own, L, M, T, level, place)[P] = sharedExpEnabled[P]
    BY <1>13 DEF UpdateShared
  <2>3. QED
    BY <1>11, <1>13, <2>1, <2>2
<1>14. /\ leader' = [P \in Parties |-> leader'[P]]
       /\ memberList' = [P \in Parties |-> memberList'[P]]
       /\ inviteList' = [P \in Parties |-> inviteList'[P]]
  <2> HIDE DEF D, L, M, T, invites
  <2>1. QED
    BY <1>1
<1> HIDE DEF L, M, T, invites
<1>15. D \subseteq own \cup R
  BY <1>5
<1> HIDE DEF D, own
<1>16. /\ own = Own(p) /\ D = Disbanded(p, R)
  BY <1>4 DEF own
<1>17. QED
  BY <1>2, <1>3, <1>7, <1>8, <1>9, <1>10, <1>11, <1>12, <1>13, <1>14, <1>15, <1>16
  DEF Left

(* Going out of the game with all invitations taken back, or staying in it. *)
LEMMA LeavingKeeps ==
  ASSUME PartyAssumption, IInv, NEW p \in Players,
         NEW R \in SUBSET Parties, Left(p, R),
         UNCHANGED <<level, place>>,
         \/ online' = online
         \/ online' = online \ {p} /\ R = invitePartyList[p]
  PROVE  IInv'
<1>1. /\ Own(p) \subseteq Parties
      /\ R \subseteq Parties \ Own(p) /\ R \subseteq invitePartyList[p]
      /\ Disbanded(p, R) \subseteq Own(p) \cup R
      /\ party' = [q \in Players |->
                     IF q = p \/ party[q] \in Disbanded(p, R)
                     THEN None ELSE party[q]]
      /\ invitePartyList' = [q \in Players |->
                     invitePartyList[q] \ (Disbanded(p, R) \cup IF q = p THEN R ELSE {})]
      /\ sharedExpActive' \in [Parties -> BOOLEAN]
      /\ sharedExpEnabled' \in [Parties -> BOOLEAN]
      /\ ticks' \in [Parties -> [Players -> {"none", "recent", "old"}]]
      /\ leader' = [P \in Parties |-> leader'[P]]
      /\ memberList' = [P \in Parties |-> memberList'[P]]
      /\ inviteList' = [P \in Parties |-> inviteList'[P]]
  BY DEF Left
<1>2. \A P \in Disbanded(p, R) :
        /\ leader'[P] = None /\ memberList'[P] = <<>>
        /\ inviteList'[P] = {} /\ ~sharedExpActive'[P]
  BY <1>1 DEF Left
<1>3. \A P \in Own(p) \ Disbanded(p, R) :
        /\ leader'[P] = LeaderAfter(P, p)
        /\ memberList'[P] = MembersAfter(P, p)
        /\ inviteList'[P] = inviteList[P]
        /\ ~MissingLeader(P, p)
        /\ memberList'[P] # <<>> \/ inviteList[P] # {}
        /\ sharedExpActive'[P] /\ sharedExpEnabled'[P] =>
             CanEnable(leader'[P], memberList'[P], ticks'[P], level', place')
  BY <1>1 DEF Left
<1>4. \A P \in Parties : P \notin Disbanded(p, R) /\ P \notin Own(p) =>
        /\ leader'[P] = leader[P] /\ memberList'[P] = memberList[P]
        /\ inviteList'[P] = inviteList[P] \ IF P \in R THEN {p} ELSE {}
        /\ sharedExpActive'[P] = sharedExpActive[P]
        /\ sharedExpEnabled'[P] = sharedExpEnabled[P]
  BY DEF Left
<1> USE PartyAssumption DEF PartyAssumption, IInv, TypeOK
<1>5. \A P \in Own(p) : party[p] = P
  BY DEF Own
<1>6. \A P \in Own(p) \ Disbanded(p, R) :
        /\ memberList'[P] \in Seq(Players) /\ Distinct(memberList'[P])
        /\ leader'[P] \in Players /\ leader'[P] \notin Elems(memberList'[P])
        /\ p # leader'[P] /\ p \notin Elems(memberList'[P])
        /\ {leader'[P]} \cup Elems(memberList'[P]) \cup {p}
             = {leader[P]} \cup Elems(memberList[P])
  BY <1>1, <1>3, <1>5, Departure
<1>7. \A P \in Parties : P \notin Own(p) => party[p] # P
  BY DEF Own
<1>8. \A P \in R : p \in inviteList[P]
  BY <1>1 DEF InvitationsMutual
<1>9. \A P \in Disbanded(p, R) : P \in R => memberList[P] = <<>> /\ inviteList[P] \subseteq {p}
  BY <1>1 DEF Disbanded
<1>10. TypeOK'
  <2>1. \A P \in Parties :
          /\ leader'[P] \in Players \cup {None}
          /\ memberList'[P] \in Seq(Players)
          /\ leader'[P] \notin Elems(memberList'[P])
          /\ inviteList'[P] \in SUBSET Players
    <3> SUFFICES ASSUME NEW P \in Parties
                 PROVE  /\ leader'[P] \in Players \cup {None}
                        /\ memberList'[P] \in Seq(Players)
                        /\ leader'[P] \notin Elems(memberList'[P])
                        /\ inviteList'[P] \in SUBSET Players
      OBVIOUS
    <3>1. CASE P \in Disbanded(p, R)
      <4>1. leader'[P] = None /\ memberList'[P] = <<>> /\ inviteList'[P] = {}
        BY <1>2, <3>1
      <4>2. <<>> \in Seq(Players) /\ Elems(<<>>) = {}
        BY NoElems, SeqFacts
      <4>3. QED
        BY <4>1, <4>2
    <3>2. CASE P \in Own(p) \ Disbanded(p, R)
      BY <1>3, <1>6, <3>2
    <3>3. CASE P \notin Disbanded(p, R) /\ P \notin Own(p)
      BY <1>4, <3>3
    <3>4. QED
      BY <3>1, <3>2, <3>3
  <2>2. /\ leader' \in [Parties -> Players \cup {None}]
        /\ memberList' \in [Parties -> Seq(Players)]
        /\ inviteList' \in [Parties -> SUBSET Players]
    BY <1>1, <2>1
  <2>3. /\ party' \in [Players -> Parties \cup {None}]
        /\ invitePartyList' \in [Players -> SUBSET Parties]
    BY <1>1
  <2>4. QED
    BY <1>1, <2>1, <2>2, <2>3
<1>11. Listed'
  <2> SUFFICES ASSUME NEW P \in Parties PROVE Distinct(memberList'[P])
    BY DEF Listed
  <2>1. CASE P \in Disbanded(p, R)
    BY <1>2, <2>1, NoElems
  <2>2. CASE P \in Own(p) \ Disbanded(p, R)
    BY <1>6, <2>2
  <2>3. CASE P \notin Disbanded(p, R) /\ P \notin Own(p)
    BY <1>4, <2>3 DEF Listed
  <2>4. QED
    BY <2>1, <2>2, <2>3
<1>12. Belongs'
  <2> SUFFICES ASSUME NEW P \in Parties, NEW q \in Players
               PROVE  party'[q] = P <=> q = leader'[P] \/ q \in Elems(memberList'[P])
    BY DEF Belongs
  <2>1. party[q] = P <=> q = leader[P] \/ q \in Elems(memberList[P])
    BY DEF Belongs
  <2>2. party'[q] = IF q = p \/ party[q] \in Disbanded(p, R) THEN None ELSE party[q]
    BY <1>1
  <2>3. CASE P \in Disbanded(p, R)
    BY <1>2, <2>2, <2>3, NoElems
  <2>4. CASE P \in Own(p) \ Disbanded(p, R)
    <3>1. /\ {leader'[P]} \cup Elems(memberList'[P]) \cup {p}
               = {leader[P]} \cup Elems(memberList[P])
          /\ p # leader'[P] /\ p \notin Elems(memberList'[P])
      BY <1>6, <2>4
    <3>2. q = leader'[P] \/ q \in Elems(memberList'[P]) <=> party[q] = P /\ q # p
      BY <2>1, <3>1
    <3>3. QED
      BY <1>1, <2>2, <2>4, <3>2
  <2>5. CASE P \notin Disbanded(p, R) /\ P \notin Own(p)
    BY <1>4, <1>7, <2>1, <2>2, <2>5
  <2>6. QED
    BY <2>3, <2>4, <2>5
<1>13. MembersOnline'
  BY <1>1 DEF MembersOnline
<1>14. InvitationsMutual'
  <2> SUFFICES ASSUME NEW P \in Parties, NEW q \in Players
               PROVE  /\ q \in inviteList'[P] <=> P \in invitePartyList'[q]
                      /\ q \in inviteList'[P] =>
                           leader'[P] # None /\ q \in online' /\ party'[q] # P
    BY DEF InvitationsMutual, InUse
  <2>1. /\ q \in inviteList[P] <=> P \in invitePartyList[q]
        /\ q \in inviteList[P] => leader[P] # None /\ q \in online /\ party[q] # P
    BY DEF InvitationsMutual, InUse
  <2>2. /\ party'[q] = IF q = p \/ party[q] \in Disbanded(p, R) THEN None ELSE party[q]
        /\ invitePartyList'[q]
             = invitePartyList[q] \ (Disbanded(p, R) \cup IF q = p THEN R ELSE {})
    BY <1>1
  <2>3. CASE P \in Disbanded(p, R)
    BY <1>2, <2>2, <2>3
  <2>4. CASE P \in Own(p) \ Disbanded(p, R)
    <3>1. leader'[P] # None /\ inviteList'[P] = inviteList[P] /\ P \notin R
      BY <1>1, <1>3, <1>6, <2>4
    <3>2. party[p] = P
      BY <1>5, <2>4
    <3>3. q \in inviteList[P] => q # p /\ q \in online'
      BY <2>1, <3>2
    <3>4. QED
      BY <2>1, <2>2, <2>4, <3>1, <3>3
  <2>5. CASE P \notin Disbanded(p, R) /\ P \notin Own(p)
    <3>1. leader'[P] = leader[P]
          /\ inviteList'[P] = inviteList[P] \ IF P \in R THEN {p} ELSE {}
      BY <1>4, <2>5
    <3>2. CASE q = p
      <4>1. P \in R \/ online' = online \/ P \notin invitePartyList[q]
        BY <3>2
      <4>2. QED
        BY <2>1, <2>2, <2>5, <3>1, <3>2, <4>1
    <3>3. CASE q # p
      BY <2>1, <2>2, <2>5, <3>1, <3>3
    <3>4. QED
      BY <3>2, <3>3
  <2>6. QED
    BY <2>3, <2>4, <2>5
<1>15. NoEmptyParty'
  <2> SUFFICES ASSUME NEW P \in Parties
               PROVE  leader'[P] # None <=> memberList'[P] # <<>> \/ inviteList'[P] # {}
    BY DEF NoEmptyParty, InUse
  <2>1. leader[P] # None <=> memberList[P] # <<>> \/ inviteList[P] # {}
    BY DEF NoEmptyParty, InUse
  <2>2. CASE P \in Disbanded(p, R)
    BY <1>2, <2>2
  <2>3. CASE P \in Own(p) \ Disbanded(p, R)
    BY <1>3, <1>6, <2>3
  <2>4. CASE P \notin Disbanded(p, R) /\ P \notin Own(p)
    <3>1. P \in R => memberList[P] # <<>> \/ ~(inviteList[P] \subseteq {p})
      BY <2>4 DEF Disbanded
    <3>2. QED
      BY <1>4, <2>1, <2>4, <3>1
  <2>5. QED
    BY <2>2, <2>3, <2>4
<1>16. SharingIsFair'
  <2> SUFFICES ASSUME NEW P \in Parties, sharedExpActive'[P], sharedExpEnabled'[P]
               PROVE  CanEnable(leader'[P], memberList'[P], Recent, level', place')
    BY DEF SharingIsFair, Recent
  <2>1. CASE P \in Disbanded(p, R)
    BY <1>2, <2>1
  <2>2. CASE P \in Own(p) \ Disbanded(p, R)
    <3>1. CanEnable(leader'[P], memberList'[P], ticks'[P], level', place')
      BY <1>3, <2>2
    <3>2. leader'[P] \in Players /\ memberList'[P] \in Seq(Players)
      BY <1>6, <2>2
    <3>3. QED
      BY <3>1, <3>2, RecentSuffices
  <2>3. CASE P \notin Disbanded(p, R) /\ P \notin Own(p)
    BY <1>4, <2>3 DEF SharingIsFair, Recent
  <2>4. QED
    BY <2>1, <2>2, <2>3
<1>17. QED
  BY <1>10, <1>11, <1>12, <1>13, <1>14, <1>15, <1>16

-----------------------------------------------------------------------------
(* The actions that leave who belongs where. *)

(* A flag that is refreshed is right, and one that is not refreshed stays    *)
(* right if the members of its party keep their levels and places.          *)
LEMMA Refreshing ==
  ASSUME PartyAssumption, IInv, TypeOK', UNCHANGED <<structure, sharedExpActive>>,
         NEW D \in SUBSET Parties,
         sharedExpEnabled' = UpdateShared(D, leader, memberList, ticks', level', place'),
         \A P \in Parties \ D : leader[P] # None =>
           \A q \in {leader[P]} \cup Elems(memberList[P]) :
             level'[q] = level[q] /\ place'[q] = place[q],
         \A P \in D : leader[P] # None
  PROVE  SharingIsFair'
<1> USE PartyAssumption DEF PartyAssumption, IInv, TypeOK, structure
<1> SUFFICES ASSUME NEW P \in Parties, sharedExpActive'[P], sharedExpEnabled'[P]
             PROVE  CanEnable(leader[P], memberList[P], Recent, level', place')
  BY DEF SharingIsFair, Recent
<1>1. CASE P \in D
  <2>1. CanEnable(leader[P], memberList[P], ticks'[P], level', place')
    BY <1>1 DEF UpdateShared
  <2>2. QED
    BY <1>1, <2>1, RecentSuffices
<1>2. CASE P \notin D
  <2>1. CanEnable(leader[P], memberList[P], Recent, level, place)
    BY <1>2 DEF UpdateShared, SharingIsFair, Recent
  <2>2. leader[P] # None
    BY <2>1 DEF CanEnable, NoEmptyParty, InUse
  <2>3. \A q \in {leader[P]} \cup Elems(memberList[P]) :
          level[q] = level'[q] /\ place[q] = place'[q]
    BY <1>2, <2>2
  <2>4. QED
    BY <2>1, <2>3, OnlyMembersMatter
<1>3. QED
  BY <1>1, <1>2

LEMMA StructureStays ==
  ASSUME IInv, UNCHANGED structure, online \subseteq online', TypeOK', SharingIsFair'
  PROVE  IInv'
BY DEF IInv, structure, TypeOK, Listed, Belongs, MembersOnline,
       InvitationsMutual, NoEmptyParty, InUse

LEMMA Sharing ==
  ASSUME PartyAssumption, IInv, NEW l \in Players, NEW b \in BOOLEAN,
         SetSharedExperience(l, b)
  PROVE  IInv'
<1> USE PartyAssumption DEF PartyAssumption
<1> DEFINE P == party[l]
<1>1. /\ P \in Parties /\ leader[P] = l
      /\ sharedExpActive' = [sharedExpActive EXCEPT ![P] = b]
      /\ sharedExpEnabled' =
           [sharedExpEnabled EXCEPT ![P] =
              IF b THEN CanEnable(l, memberList[P], ticks[P], level, place) ELSE @]
      /\ UNCHANGED <<online, structure, ticks, level, place>>
  BY DEF SetSharedExperience, IInv, TypeOK
<1> HIDE DEF P
<1>2. TypeOK'
  BY <1>1 DEF IInv, TypeOK, structure, CanEnable
<1>3. SharingIsFair'
  <2> USE DEF IInv, TypeOK, structure
  <2> SUFFICES ASSUME NEW Q \in Parties, sharedExpActive'[Q], sharedExpEnabled'[Q]
               PROVE  CanEnable(leader[Q], memberList[Q], Recent, level, place)
    BY <1>1 DEF SharingIsFair, Recent
  <2>1. CASE Q = P
    <3>1. CanEnable(l, memberList[P], ticks[P], level, place)
      BY <1>1, <2>1
    <3>2. QED
      BY <1>1, <2>1, <3>1, RecentSuffices
  <2>2. CASE Q # P
    BY <1>1, <2>2 DEF SharingIsFair, Recent
  <2>3. QED
    BY <2>1, <2>2
<1>4. QED
  BY <1>1, <1>2, <1>3, StructureStays

LEMMA LevelsAndSteps ==
  ASSUME PartyAssumption, IInv, NEW p \in Players,
         \/ \E n \in Levels : ChangeLevel(p, n)
         \/ \E x \in Places : Walk(p, x)
  PROVE  IInv'
<1> USE PartyAssumption DEF PartyAssumption
<1>0. level \in [Players -> Levels] /\ place \in [Players -> Places]
  BY DEF IInv, TypeOK
<1>1. /\ UNCHANGED <<online, structure, sharedExpActive, ticks>>
      /\ sharedExpEnabled' =
           UpdateShared(OwnParty(p), leader, memberList, ticks', level', place')
      /\ level' \in [Players -> Levels] /\ place' \in [Players -> Places]
      /\ \A q \in Players : q # p => level'[q] = level[q] /\ place'[q] = place[q]
  <2>1. CASE \E n \in Levels : ChangeLevel(p, n)
    BY <1>0, <2>1 DEF ChangeLevel, structure
  <2>2. CASE \E x \in Places : Walk(p, x)
    BY <1>0, <2>2 DEF Walk, structure
  <2>3. QED
    BY <2>1, <2>2
<1>2. TypeOK'
  BY <1>1 DEF IInv, TypeOK, structure, UpdateShared, CanEnable
<1>3. /\ OwnParty(p) \in SUBSET Parties
      /\ \A P \in OwnParty(p) : party[p] = P
      /\ \A P \in Parties : party[p] = P => P \in OwnParty(p)
  BY DEF OwnParty, IInv, TypeOK
<1>4. \A P \in OwnParty(p) : leader[P] # None
  BY <1>3, NoElems DEF IInv, TypeOK, Belongs, NoEmptyParty, InUse
<1>5. ASSUME NEW P \in Parties \ OwnParty(p), leader[P] # None,
             NEW q \in {leader[P]} \cup Elems(memberList[P])
      PROVE  level'[q] = level[q] /\ place'[q] = place[q]
  <2>1. q \in Players /\ party[q] = P
    BY <1>5, ElemsEmpty DEF IInv, TypeOK, Belongs
  <2>2. q # p
    BY <1>3, <2>1
  <2>3. QED
    BY <1>1, <2>1, <2>2
<1>6. SharingIsFair'
  BY <1>1, <1>2, <1>3, <1>4, <1>5, Refreshing
<1>7. QED
  BY <1>1, <1>2, <1>6, StructureStays

LEMMA Fighting ==
  ASSUME PartyAssumption, IInv, NEW p \in Players,
         NEW t \in {"none", "recent"}, SetTicks(p, t)
  PROVE  IInv'
<1> USE PartyAssumption DEF PartyAssumption
<1>1. /\ party[p] \in Parties
      /\ ticks' = [ticks EXCEPT ![party[p]][p] = t]
      /\ sharedExpEnabled' =
           UpdateShared({party[p]}, leader, memberList, ticks', level, place)
      /\ UNCHANGED <<online, structure, sharedExpActive, level, place>>
  BY DEF SetTicks, IInv, TypeOK
<1>2. TypeOK'
  BY <1>1 DEF IInv, TypeOK, structure, UpdateShared, CanEnable
<1>3. leader[party[p]] # None
  <2>1. \/ p = leader[party[p]]
        \/ p \in Elems(memberList[party[p]])
    BY <1>1 DEF IInv, Belongs
  <2>2. memberList[party[p]] # <<>> => leader[party[p]] # None
    BY <1>1 DEF IInv, NoEmptyParty, InUse
  <2>3. QED
    BY <2>1, <2>2, NoElems DEF PartyAssumption
<1>4. SharingIsFair'
  BY <1>1, <1>2, <1>3, Refreshing
<1>5. QED
  BY <1>1, <1>2, <1>4, StructureStays

LEMMA Ageing ==
  ASSUME PartyAssumption, IInv, NEW P \in Parties, NEW p \in Players,
         TicksAge(P, p)
  PROVE  IInv'
<1>1. TypeOK'
  BY DEF TicksAge, IInv, TypeOK, structure
<1>2. SharingIsFair'
  BY DEF TicksAge, IInv, SharingIsFair, structure
<1>3. QED
  BY <1>1, <1>2, StructureStays DEF TicksAge

LEMMA ComingAndGoing ==
  ASSUME PartyAssumption, IInv, NEW p \in Players,
         LeaveParty(p) \/ Logout(p) \/ Login(p)
  PROVE  IInv'
<1>0. {} \in SUBSET Parties /\ invitePartyList[p] \in SUBSET Parties
  BY DEF IInv, TypeOK
<1>1. CASE LeaveParty(p)
  <2>1. Leave(p, {}) /\ UNCHANGED <<online, level, place>>
    BY <1>1 DEF LeaveParty
  <2>2. Left(p, {})
    BY <2>1, Leaving
  <2>3. QED
    BY <1>0, <2>1, <2>2, LeavingKeeps
<1>2. CASE Logout(p)
  <2>1. /\ Leave(p, invitePartyList[p]) /\ online' = online \ {p}
        /\ UNCHANGED <<level, place>>
    BY <1>2 DEF Logout
  <2>2. Left(p, invitePartyList[p])
    BY <2>1, Leaving
  <2>3. QED
    BY <1>0, <2>1, <2>2, LeavingKeeps
<1>3. CASE Login(p)
  <2>1. UNCHANGED structure /\ online \subseteq online'
    BY <1>3 DEF Login
  <2>2. TypeOK' /\ SharingIsFair'
    BY <1>3 DEF Login, IInv, TypeOK, SharingIsFair, structure, shared
  <2>3. QED
    BY <2>1, <2>2, StructureStays
<1>4. QED
  BY <1>1, <1>2, <1>3

LEMMA Inductive == ASSUME PartyAssumption PROVE IInv /\ [Next]_vars => IInv'
<1> SUFFICES ASSUME IInv, [Next]_vars PROVE IInv'
  OBVIOUS
<1> USE PartyAssumption
<1>1. ASSUME NEW p \in Players, NEW q \in Players,
             \/ InviteToParty(p, q) \/ JoinParty(p, q) \/ RevokeInvitation(p, q)
             \/ PassPartyLeadership(p, q)
      PROVE  IInv'
  BY <1>1, Inviting, Joining, Revoking, Passing
<1>2. ASSUME NEW p \in Players, LeaveParty(p) \/ Logout(p) \/ Login(p)
      PROVE  IInv'
  BY <1>2, ComingAndGoing
<1>3. ASSUME NEW p \in Players, NEW b \in BOOLEAN, SetSharedExperience(p, b)
      PROVE  IInv'
  BY <1>3, Sharing
<1>4. ASSUME NEW p \in Players,
             \/ \E n \in Levels : ChangeLevel(p, n)
             \/ \E x \in Places : Walk(p, x)
      PROVE  IInv'
  BY <1>4, LevelsAndSteps
<1>5. ASSUME NEW p \in Players, NEW t \in {"none", "recent"}, SetTicks(p, t)
      PROVE  IInv'
  BY <1>5, Fighting
<1>6. ASSUME NEW P \in Parties, NEW p \in Players, TicksAge(P, p)
      PROVE  IInv'
  BY <1>6, Ageing
<1>7. CASE UNCHANGED vars
  <2>1. UNCHANGED structure /\ online \subseteq online'
    BY <1>7 DEF vars
  <2>2. TypeOK' /\ SharingIsFair'
    BY <1>7 DEF vars, IInv, TypeOK, SharingIsFair, structure, shared
  <2>3. QED
    BY <2>1, <2>2, StructureStays
<1>8. QED
  BY <1>1, <1>2, <1>3, <1>4, <1>5, <1>6, <1>7 DEF Next

-----------------------------------------------------------------------------
(* The Party objects and the pointers of the players agree for ever, no      *)
(* pointer leads to a freed party, nobody is in two parties or twice in     *)
(* one, and the cached flag of shared experience is right (party.cpp).      *)
THEOREM PartyIsConsistent == Spec => []PartyInv
<1>1. Init => IInv
  BY PartyAssumption, Initially
<1>2. IInv /\ [Next]_vars => IInv'
  BY PartyAssumption, Inductive
<1>3. IInv => PartyInv
  BY PartyAssumption, Counting
<1>4. QED
  BY <1>1, <1>2, <1>3, PTL DEF Spec

Survives ==
  \A P \in Parties :
    InUse(P) /\ Len(memberList[P]) >= 2 =>
      leader'[P] \in {leader[P]} \cup Elems(memberList[P])

LEMMA LeavingSpares ==
  ASSUME PartyAssumption, IInv, NEW p \in Players,
         NEW R \in SUBSET Parties, Left(p, R)
  PROVE  Survives
<1> SUFFICES ASSUME NEW P \in Parties, Len(memberList[P]) >= 2
             PROVE  leader'[P] \in {leader[P]} \cup Elems(memberList[P])
  BY DEF Survives
<1>1. memberList[P] \in Seq(Players) /\ Distinct(memberList[P])
  BY DEF IInv, TypeOK, Listed
<1>2. Len(memberList[P]) # 1 /\ memberList[P] # <<>>
  <2> DEFINE n == Len(memberList[P])
  <2>1. n \in Nat /\ n >= 2 /\ (memberList[P] = <<>> => n = 0)
    BY <1>1, SeqFacts
  <2> HIDE DEF n
  <2>2. n # 1 /\ n # 0
    BY <2>1
  <2>3. QED
    BY <2>1, <2>2 DEF n
<1>3. CASE P \in Own(p)
  <2>1. party[p] = P
    BY <1>3 DEF Own
  <2>2. ~MissingLeader(P, p)
    BY <1>2 DEF MissingLeader
  <2>3. MembersAfter(P, p) # <<>>
    <3>1. CASE leader[P] = p
      <4>1. MembersAfter(P, p) = Tail(memberList[P])
        BY <2>2, <3>1 DEF MembersAfter
      <4>2. QED
        BY <1>1, <1>2, <4>1, TailFacts
    <3>2. CASE leader[P] # p
      <4>1. MembersAfter(P, p) = Erased(memberList[P], p)
        BY <3>2 DEF MembersAfter
      <4>2. Erased(memberList[P], p) = <<>> => Len(memberList[P]) <= 1
        BY <1>1, ErasedFacts
      <4>3. Len(memberList[P]) \in Nat
        BY <1>1, SeqFacts
      <4>4. QED
        BY <4>1, <4>2, <4>3
    <3>3. QED
      BY <3>1, <3>2
  <2>4. P \notin Disbanded(p, R)
    BY <1>2, <1>3, <2>2, <2>3 DEF Disbanded, Disbands, Empty
  <2>5. leader'[P] = LeaderAfter(P, p)
    BY <1>3, <2>4 DEF Left
  <2>6. {LeaderAfter(P, p)} \cup Elems(MembersAfter(P, p)) \cup {p}
          = {leader[P]} \cup Elems(memberList[P])
    BY <2>1, Departure
  <2>7. QED
    BY <2>5, <2>6
<1>4. CASE P \notin Own(p)
  <2>1. P \notin Disbanded(p, R)
    BY <1>2, <1>4 DEF Disbanded
  <2>2. QED
    BY <1>4, <2>1 DEF Left
<1>5. QED
  BY <1>3, <1>4

LEMMA NextSpares == ASSUME PartyAssumption, IInv, Next PROVE Survives
<1> USE PartyAssumption
<1>1. ASSUME UNCHANGED leader PROVE Survives
  BY <1>1 DEF Survives
<1>2. ASSUME NEW p \in Players, NEW q \in Players, InviteToParty(p, q)
      PROVE  Survives
  <2> USE DEF IInv, TypeOK
  <2>1. PICK P \in Parties :
          /\ leader[P] = p \/ leader[P] = None
          /\ leader' = [leader EXCEPT ![P] = p]
    BY <1>2 DEF InviteToParty
  <2>2. QED
    BY <2>1 DEF Survives, InUse
<1>3. ASSUME NEW p \in Players, NEW q \in Players, JoinParty(p, q)
      PROVE  Survives
  BY <1>1, <1>3 DEF JoinParty
<1>4. ASSUME NEW l \in Players, NEW q \in Players, RevokeInvitation(l, q)
      PROVE  Survives
  <2> DEFINE P == party[l]
             gone == Empty(memberList[P], inviteList[P] \ {q})
  <2>1. leader' = [leader EXCEPT ![P] = IF gone THEN None ELSE @]
    BY <1>4 DEF RevokeInvitation
  <2>2. gone => Len(memberList[P]) = 0
    BY SeqFacts DEF Empty
  <2> HIDE DEF P, gone
  <2>3. QED
    BY <2>1, <2>2 DEF Survives, IInv, TypeOK
<1>5. ASSUME NEW l \in Players, NEW q \in Players, PassPartyLeadership(l, q)
      PROVE  Survives
  <2>1. /\ l # q /\ leader[party[l]] = l /\ party[q] = party[l]
        /\ party[l] \in Parties
        /\ leader' = [leader EXCEPT ![party[l]] = q]
    BY <1>5 DEF PassPartyLeadership, IInv, TypeOK
  <2>2. q \in Elems(memberList[party[l]])
    BY <2>1 DEF IInv, Belongs
  <2>3. QED
    BY <2>1, <2>2 DEF Survives, IInv, TypeOK
<1>6. ASSUME NEW p \in Players, LeaveParty(p) \/ Logout(p) \/ Login(p)
      PROVE  Survives
  <2>0. {} \in SUBSET Parties /\ invitePartyList[p] \in SUBSET Parties
    BY DEF IInv, TypeOK
  <2>1. CASE LeaveParty(p)
    BY <2>0, <2>1, Leaving, LeavingSpares DEF LeaveParty
  <2>2. CASE Logout(p)
    BY <2>0, <2>2, Leaving, LeavingSpares DEF Logout
  <2>3. CASE Login(p)
    BY <1>1, <2>3 DEF Login, structure
  <2>4. QED
    BY <1>6, <2>1, <2>2, <2>3
<1>7. ASSUME \/ \E p \in Players, b \in BOOLEAN : SetSharedExperience(p, b)
             \/ \E p \in Players, n \in Levels : ChangeLevel(p, n)
             \/ \E p \in Players, x \in Places : Walk(p, x)
             \/ \E p \in Players, t \in {"none", "recent"} : SetTicks(p, t)
             \/ \E P \in Parties, p \in Players : TicksAge(P, p)
      PROVE  Survives
  <2>1. UNCHANGED leader
    BY <1>7 DEF SetSharedExperience, ChangeLevel, Walk, SetTicks, TicksAge, structure
  <2>2. QED
    BY <1>1, <2>1
<1>8. QED
  BY <1>2, <1>3, <1>4, <1>5, <1>6, <1>7 DEF Next

(* Whoever leaves, logs out or is passed over, a party of three or more      *)
(* goes on, led by the leader or by a member (Party::leaveParty).           *)
THEOREM PartyLivesOn == Spec => PartySurvives
<1>1. Init => IInv
  BY PartyAssumption, Initially
<1>2. IInv /\ [Next]_vars => IInv'
  BY PartyAssumption, Inductive
<1>3. IInv /\ [Next]_vars => [Survives]_vars
  BY PartyAssumption, NextSpares
<1>4. Spec => [][Survives]_vars
  BY <1>1, <1>2, <1>3, PTL DEF Spec
<1>5. QED
  BY <1>4 DEF PartySurvives, Survives


-----------------------------------------------------------------------------
(* The forest of items.  A placement is one when every set of containers    *)
(* that is not empty has one that lies outside of it: then no container is  *)
(* in itself, and every item is finally in the hands of a player, in a      *)
(* place or gone.                                                           *)
Outside == Players \cup Squares \cup {Gone}
Placement == [Items -> Outside \cup Containers]

Forest(l) ==
  \A S \in SUBSET Containers : S # {} => \E c \in S : l[c] \notin S

LEMMA Disjoint ==
  /\ Containers \subseteq Items /\ Outside \cap Items = {}
  /\ Outside \cap Containers = {}
  /\ \A l \in Placement, i \in Items :
       /\ l[i] \in Outside \cup Containers
       /\ l[i] \in Containers <=> l[i] \notin Outside
BY PlayersAssumption DEF PlayersAssumption, Outside, Placement

(* A set of containers that has what i lies in, and what any of its own     *)
(* lies in, has all that hold i.                                            *)
LEMMA Least ==
  ASSUME NEW l \in Placement, NEW i \in Items, NEW S \in SUBSET Containers,
         l[i] \in Containers => l[i] \in S,
         \A c \in S : l[c] \in Containers => l[c] \in S
  PROVE  Trades!Around(l, i) \subseteq S
<1>1. Trades!Above(l, S \cup {i}) \subseteq S
  BY DEF Trades!Above
<1>2. QED
  BY <1>1 DEF Trades!Around

LEMMA Upwards ==
  ASSUME NEW l \in Placement, NEW i \in Items
  PROVE  /\ Trades!Around(l, i) \subseteq Containers
         /\ l[i] \in Containers => l[i] \in Trades!Around(l, i)
         /\ \A c \in Trades!Around(l, i) : l[c] \in Containers => l[c] \in Trades!Around(l, i)
<1>1. ASSUME l[i] \in Containers PROVE l[i] \in Trades!Around(l, i)
  BY <1>1 DEF Trades!Around, Trades!Above
<1>2. ASSUME NEW c \in Trades!Around(l, i), l[c] \in Containers PROVE l[c] \in Trades!Around(l, i)
  <2>1. ASSUME NEW S \in SUBSET Containers, Trades!Above(l, S \cup {i}) \subseteq S
        PROVE  l[c] \in S
    BY <1>2, <2>1 DEF Trades!Around, Trades!Above
  <2>2. QED
    BY <1>2, <2>1 DEF Trades!Around
<1>3. QED
  BY <1>1, <1>2 DEF Trades!Around

(* One level at a time. *)
LEMMA Level ==
  ASSUME NEW l \in Placement, NEW i \in Items
  PROVE  Trades!Around(l, i) = IF l[i] \in Containers THEN {l[i]} \cup Trades!Around(l, l[i])
           ELSE {}
<1>1. CASE l[i] \notin Containers
  <2>1. /\ {} \in SUBSET Containers
        /\ l[i] \in Containers => l[i] \in {}
        /\ \A c \in {} : l[c] \in Containers => l[c] \in {}
    BY <1>1
  <2>2. Trades!Around(l, i) \subseteq {}
    <3> DEFINE S == {}
    <3>1. /\ S \in SUBSET Containers
          /\ l[i] \in Containers => l[i] \in S
          /\ \A c \in S : l[c] \in Containers => l[c] \in S
      BY <2>1
    <3> HIDE DEF S
    <3>2. Trades!Around(l, i) \subseteq S
      BY <3>1, Least
    <3>3. QED
      BY <3>2 DEF S
  <2>3. QED
    BY <1>1, <2>2
<1>2. CASE l[i] \in Containers
  <2> DEFINE S == {l[i]} \cup Trades!Around(l, l[i])
  <2>1. l[i] \in Items
    BY <1>2, Disjoint
  <2>2. /\ S \in SUBSET Containers /\ l[i] \in S
        /\ \A c \in S : l[c] \in Containers => l[c] \in S
    BY <1>2, <2>1, Upwards
  <2>3. Trades!Around(l, i) \subseteq S
    <3> HIDE DEF S
    <3> QED
      BY <2>2, Least
  <2>4. Trades!Around(l, l[i]) \subseteq Trades!Around(l, i)
    <3>1. /\ Trades!Around(l, i) \in SUBSET Containers
          /\ l[l[i]] \in Containers => l[l[i]] \in Trades!Around(l, i)
          /\ \A c \in Trades!Around(l, i) : l[c] \in Containers => l[c] \in Trades!Around(l, i)
      BY <1>2, Upwards
    <3>2. QED
      BY <2>1, <3>1, Least
  <2>5. QED
    BY <1>2, <2>3, <2>4, Upwards
<1>3. QED
  BY <1>1, <1>2

LEMMA AroundAround ==
  ASSUME NEW l \in Placement, NEW i \in Items, NEW c \in Trades!Around(l, i)
  PROVE  c \in Items /\ Trades!Around(l, c) \subseteq Trades!Around(l, i)
<1>1. c \in Containers /\ c \in Items
  BY Upwards, Disjoint
<1>2. QED
  BY <1>1, Upwards, Least

LEMMA NotInItself ==
  ASSUME NEW l \in Placement, Forest(l), NEW c \in Containers
  PROVE  c \notin Trades!Around(l, c)
<1> SUFFICES ASSUME c \in Trades!Around(l, c) PROVE FALSE
  OBVIOUS
<1> DEFINE S == {x \in Containers : c \in Trades!Around(l, x)}
<1>1. c \in S
  OBVIOUS
<1>2. ASSUME NEW x \in S PROVE l[x] \in S
  <2>1. x \in Items /\ c \in Trades!Around(l, x)
    BY Disjoint
  <2>2. l[x] \in Containers /\ (c = l[x] \/ c \in Trades!Around(l, l[x]))
    BY <2>1, Level
  <2>3. QED
    BY <2>2
<1>3. QED
  BY <1>1, <1>2 DEF Forest

(* Where an item finally lies. *)
Ends(l, i) == {r \in {l[c] : c \in Trades!Around(l, i) \cup {i}} : r \notin Containers}

LEMMA EndsLevel ==
  ASSUME NEW l \in Placement, NEW i \in Items
  PROVE  Ends(l, i) = IF l[i] \in Containers THEN Ends(l, l[i]) ELSE {l[i]}
<1>1. Trades!Around(l, i) = IF l[i] \in Containers THEN {l[i]} \cup Trades!Around(l, l[i]) ELSE {}
  BY Level
<1>2. QED
  BY <1>1 DEF Ends

LEMMA OneEnd ==
  ASSUME NEW l \in Placement, Forest(l), NEW i \in Items
  PROVE  \E r \in Outside : Ends(l, i) = {r}
<1> DEFINE Ended(x) == \E r \in Outside : Ends(l, x) = {r}
           S == {c \in Containers : ~Ended(c)}
<1>1. ASSUME NEW x \in Items, l[x] \in Containers => Ended(l[x]) PROVE Ended(x)
  BY <1>1, EndsLevel, Disjoint
<1>2. S = {}
  <2>1. SUFFICES ASSUME S # {} PROVE FALSE
    OBVIOUS
  <2>2. PICK c \in S : l[c] \notin S
    BY <2>1 DEF Forest
  <2>3. c \in Items
    BY Disjoint
  <2> HIDE DEF Ended
  <2>4. Ended(c)
    BY <1>1, <2>2, <2>3
  <2>5. QED
    BY <2>4
<1> HIDE DEF Ended
<1>3. l[i] \in Containers => Ended(l[i])
  BY <1>2
<1>4. Ended(i)
  BY <1>1, <1>3
<1>5. QED
  BY <1>4 DEF Ended

LEMMA RootIsEnd ==
  ASSUME NEW l \in Placement, Forest(l), NEW i \in Items
  PROVE  Trades!Root(l, i) \in Outside /\ Ends(l, i) = {Trades!Root(l, i)}
<1>1. PICK r \in Outside : Ends(l, i) = {r}
  BY OneEnd
<1>2. Trades!Root(l, i) = CHOOSE x \in Ends(l, i) : TRUE
  BY DEF Trades!Root, Ends
<1>3. QED
  BY <1>1, <1>2

LEMMA RootLevel ==
  ASSUME NEW l \in Placement, Forest(l), NEW i \in Items
  PROVE  /\ l[i] \in Containers => Trades!Root(l, i) = Trades!Root(l, l[i])
         /\ l[i] \notin Containers => Trades!Root(l, i) = l[i]
<1>1. l[i] \in Containers => l[i] \in Items
  BY Disjoint
<1>2. QED
  BY <1>1, EndsLevel, RootIsEnd

LEMMA RootAround ==
  ASSUME NEW l \in Placement, Forest(l), NEW i \in Items, NEW c \in Trades!Around(l, i)
  PROVE  Trades!Root(l, c) = Trades!Root(l, i)
<1> DEFINE S == {x \in Containers : Trades!Root(l, x) = Trades!Root(l, i)}
<1>1. S \in SUBSET Containers /\ (l[i] \in Containers => l[i] \in S)
  BY RootLevel
<1>2. ASSUME NEW x \in S, l[x] \in Containers PROVE l[x] \in S
  BY <1>2, RootLevel, Disjoint
<1>3. Trades!Around(l, i) \subseteq S
  <2> HIDE DEF S
  <2> QED
    BY <1>1, <1>2, Least
<1>4. QED
  BY <1>3

-----------------------------------------------------------------------------
(* An item moves: into a container that neither is the item nor lies in it, *)
(* or out of all of them.                                                   *)
MayMove(l, i, d) ==
  /\ d \in Outside \cup Containers
  /\ d \in Containers => d # i /\ i \notin Trades!Around(l, d)

Moved(l, i, d) == [l EXCEPT ![i] = d]

LEMMA MovedValue ==
  ASSUME NEW l \in Placement, NEW i \in Items, NEW d \in Outside \cup Containers
  PROVE  /\ Moved(l, i, d) \in Placement
         /\ Moved(l, i, d)[i] = d
         /\ \A x \in Items \ {i} : Moved(l, i, d)[x] = l[x]
BY DEF Moved, Placement

(* What neither is the item nor lies in it stays where it is.               *)
LEMMA AroundStays ==
  ASSUME NEW l \in Placement, NEW i \in Items, NEW d \in Outside \cup Containers,
         NEW x \in Items, x # i, i \notin Trades!Around(l, x)
  PROVE  Trades!Around(Moved(l, i, d), x) = Trades!Around(l, x)
<1> DEFINE m == Moved(l, i, d)
<1>1. m \in Placement /\ m[x] = l[x]
  BY MovedValue
<1>2. ASSUME NEW c \in Trades!Around(l, x) PROVE c \in Items /\ c # i /\ m[c] = l[c]
  BY <1>2, MovedValue, AroundAround
<1>3. Trades!Around(m, x) \subseteq Trades!Around(l, x)
  <2>1. /\ Trades!Around(l, x) \in SUBSET Containers
        /\ m[x] \in Containers => m[x] \in Trades!Around(l, x)
        /\ \A c \in Trades!Around(l, x) : m[c] \in Containers => m[c] \in Trades!Around(l, x)
    BY <1>1, <1>2, Upwards
  <2> HIDE DEF m
  <2>2. QED
    BY <1>1, <2>1, Least
<1>4. Trades!Around(l, x) \subseteq Trades!Around(m, x)
  <2> DEFINE S == Trades!Around(l, x) \cap Trades!Around(m, x)
  <2>1. /\ S \in SUBSET Containers
        /\ l[x] \in Containers => l[x] \in S
    BY <1>1, Upwards
  <2>2. ASSUME NEW c \in S, l[c] \in Containers PROVE l[c] \in S
    BY <1>1, <1>2, <2>2, Upwards
  <2>3. Trades!Around(l, x) \subseteq S
    <3> HIDE DEF S
    <3> QED
      BY <2>1, <2>2, Least
  <2>4. QED
    BY <2>3
<1>5. QED
  BY <1>3, <1>4

LEMMA ForestStays ==
  ASSUME NEW l \in Placement, Forest(l), NEW i \in Items, NEW d, MayMove(l, i, d)
  PROVE  Forest(Moved(l, i, d))
<1> DEFINE m == Moved(l, i, d)
<1>0. d \in Outside \cup Containers
  BY DEF MayMove
<1> SUFFICES ASSUME NEW S \in SUBSET Containers, S # {}, \A c \in S : m[c] \in S
             PROVE  FALSE
  BY DEF Forest
<1>1. ASSUME NEW c \in S PROVE c \in Items /\ (c # i => m[c] = l[c])
  BY <1>0, Disjoint, MovedValue
<1>2. m[i] = d
  BY <1>0, MovedValue
<1>3. CASE i \notin S
  <2>1. \A c \in S : l[c] \in S
    BY <1>1, <1>3
  <2>2. QED
    BY <2>1 DEF Forest
<1>4. CASE i \in S
  <2> DEFINE T == S \cap ({d} \cup Trades!Around(l, d))
  <2>1. d \in S /\ d \in Containers /\ d \in Items
    BY <1>2, <1>4, Disjoint
  <2>2. i \notin T
    BY <2>1 DEF MayMove
  <2>3. T \in SUBSET Containers /\ d \in T
    BY <2>1
  <2>4. ASSUME NEW c \in T PROVE l[c] \in T
    <3>1. l[c] \in S /\ l[c] \in Containers
      BY <1>1, <2>2
    <3>2. QED
      BY <2>1, <3>1, Upwards
  <2>5. QED
    BY <2>3, <2>4 DEF Forest
<1>5. QED
  BY <1>3, <1>4

(* Where the item, and with it what it holds, lies then.                    *)
LEMMA RootStays ==
  ASSUME NEW l \in Placement, Forest(l), NEW i \in Items, NEW d, MayMove(l, i, d),
         NEW x \in Items, x # i, i \notin Trades!Around(l, x)
  PROVE  Trades!Root(Moved(l, i, d), x) = Trades!Root(l, x)
<1>0. d \in Outside \cup Containers
  BY DEF MayMove
<1>1. Trades!Around(Moved(l, i, d), x) = Trades!Around(l, x)
  BY <1>0, AroundStays
<1>2. \A c \in Trades!Around(l, x) \cup {x} : Moved(l, i, d)[c] = l[c]
  BY <1>0, AroundAround, MovedValue
<1>3. {Moved(l, i, d)[c] : c \in Trades!Around(l, x) \cup {x}}
        = {l[c] : c \in Trades!Around(l, x) \cup {x}}
  BY <1>2
<1>4. QED
  BY <1>1, <1>3 DEF Trades!Root

RootOf(l, d) == IF d \in Containers THEN Trades!Root(l, d) ELSE d

LEMMA RootMoves ==
  ASSUME NEW l \in Placement, Forest(l), NEW i \in Items, NEW d, MayMove(l, i, d)
  PROVE  Trades!Root(Moved(l, i, d), i) = RootOf(l, d)
<1> DEFINE m == Moved(l, i, d)
<1>0. /\ d \in Outside \cup Containers /\ m \in Placement /\ Forest(m) /\ m[i] = d
  BY MovedValue, ForestStays DEF MayMove
<1>1. CASE d \in Containers
  <2>1. d \in Items /\ d # i /\ i \notin Trades!Around(l, d)
    BY <1>1, Disjoint DEF MayMove
  <2>2. Trades!Root(m, d) = Trades!Root(l, d)
    BY <2>1, RootStays
  <2> HIDE DEF m
  <2>3. Trades!Root(m, i) = Trades!Root(m, d)
    BY <1>0, <1>1, RootLevel
  <2>4. QED
    BY <1>1, <2>2, <2>3 DEF RootOf, m
<1>2. CASE d \notin Containers
  <2> HIDE DEF m
  <2>1. Trades!Root(m, i) = d
    BY <1>0, <1>2, RootLevel
  <2>2. QED
    BY <1>2, <2>1 DEF RootOf, m
<1>3. QED
  BY <1>1, <1>2

LEMMA RootFollows ==
  ASSUME NEW l \in Placement, Forest(l), NEW i \in Items, NEW d, MayMove(l, i, d),
         NEW x \in Items, i \in Trades!Around(l, x)
  PROVE  Trades!Root(Moved(l, i, d), x) = RootOf(l, d)
<1> DEFINE m == Moved(l, i, d)
           S == {c \in Containers : i \in Trades!Around(l, c)
             /\ Trades!Root(m, c) # Trades!Root(m, i)}
<1>0. /\ m \in Placement /\ Forest(m)
      /\ \A c \in Items \ {i} : m[c] = l[c]
      /\ i \in Containers
  BY MovedValue, ForestStays, Upwards DEF MayMove
<1> HIDE DEF m
<1>1. ASSUME NEW c \in Items, i \in Trades!Around(l, c), l[c] \notin S
      PROVE  Trades!Root(m, c) = Trades!Root(m, i)
  <2>1. l[c] \in Containers /\ (i = l[c] \/ i \in Trades!Around(l, l[c]))
    BY <1>1, Level
  <2>2. c # i
    BY <1>0, <1>1, NotInItself
  <2>3. Trades!Root(m, c) = Trades!Root(m, l[c])
    BY <1>0, <2>1, <2>2, RootLevel
  <2>4. QED
    BY <1>1, <2>1, <2>3
<1>2. S = {}
  <2>1. SUFFICES ASSUME S # {} PROVE FALSE
    OBVIOUS
  <2>2. PICK c \in S : l[c] \notin S
    BY <2>1 DEF Forest
  <2>3. c \in Items
    BY Disjoint
  <2>4. QED
    BY <1>1, <2>2, <2>3
<1>3. Trades!Root(m, x) = Trades!Root(m, i)
  BY <1>1, <1>2
<1>4. QED
  BY <1>3, RootMoves DEF m

-----------------------------------------------------------------------------
(* TradeInv and what it takes to be inductive: items lie in a forest, and   *)
(* who is only asked to trade has offered nothing yet.                      *)
NoOfferYet == \A p \in Players : tradeState[p] = "ACKNOWLEDGE" => tradeItem[p] = NoItem

TradeIInv == Trades!TradeInv /\ Forest(loc) /\ NoOfferYet

LEMMA Placed == Trades!TypeOK => loc \in Placement
BY DEF Trades!TypeOK, Placement, Outside

LEMMA TradesInitially == Trades!Init => TradeIInv
<1> SUFFICES ASSUME Trades!Init PROVE TradeIInv
  OBVIOUS
<1> USE DEF Trades!Init
<1>1. Trades!TypeOK
  BY DEF Trades!TypeOK
<1>2. Trades!Symmetric
  BY PlayersAssumption DEF Trades!Symmetric, PlayersAssumption
<1>3. Trades!OffersRegistered
  BY PlayersAssumption DEF Trades!OffersRegistered, PlayersAssumption
<1>4. Trades!OffersDisjoint
  BY DEF Trades!OffersDisjoint
<1>5. Trades!OffersInReach
  BY DEF Trades!OffersInReach
<1>6. Forest(loc)
  <2>1. \A c \in Containers : loc[c] \notin Containers
    BY PlayersAssumption DEF PlayersAssumption
  <2>2. QED
    BY <2>1 DEF Forest
<1>7. NoOfferYet
  BY DEF NoOfferYet
<1>8. QED
  BY <1>1, <1>2, <1>3, <1>4, <1>5, <1>6, <1>7 DEF TradeIInv, Trades!TradeInv

(* Who offers something is in the game and in a trade with someone else.    *)
LEMMA Offering ==
  ASSUME TradeIInv, NEW p \in Players, tradePartner[p] # NoPlayer \/ tradeItem[p] # NoItem
  PROVE  /\ p \in playing /\ tradePartner[p] \in playing
         /\ tradePartner[p] \in Players \ {p}
         /\ tradePartner[tradePartner[p]] = p
         /\ tradeItem[p] # NoItem => tradeItem[p] \in Items /\ tradeItems[tradeItem[p]] = p
<1>1. tradePartner[p] \in Players
  BY DEF TradeIInv, Trades!TradeInv, Trades!TypeOK, Trades!Symmetric, Trades!OffersRegistered
<1>2. QED
  BY <1>1 DEF TradeIInv, Trades!TradeInv, Trades!TypeOK, Trades!Symmetric, Trades!OffersRegistered

(* Game::internalCloseTrade for the players of S and their partners leaves  *)
(* both sides of every other trade as they are.                             *)
LEMMA Closing ==
  ASSUME TradeIInv, NEW S \in SUBSET Players, Trades!CloseTrades(S)
  PROVE  /\ tradeState' \in [Players -> {"NONE", "INITIATED", "ACKNOWLEDGE", "ACCEPT"}]
         /\ tradePartner' \in [Players -> Players \cup {NoPlayer}]
         /\ tradeItem' \in [Players -> Items \cup {NoItem}]
         /\ tradeItems' \in [Items -> Players \cup {NoPlayer}]
         /\ Trades!OffersRegistered' /\ NoOfferYet'
         /\ \A p \in Players :
              /\ tradePartner'[p] # NoPlayer => p \notin S /\ tradePartner'[p] = tradePartner[p]
              /\ tradeItem'[p] # NoItem => p \notin S /\ tradeItem'[p] = tradeItem[p]
         /\ \A i \in Items : tradeItems'[i] # NoPlayer => tradeItems'[i] = tradeItems[i]
<1> DEFINE Q == Trades!WithPartners(S)
<1>1. S \subseteq Q /\ Q \subseteq Players
  BY DEF Trades!WithPartners
<1> USE DEF TradeIInv, Trades!TradeInv
<1>2. /\ tradeState' = [p \in Players |-> IF p \in Q THEN "NONE" ELSE tradeState[p]]
      /\ tradePartner' = [p \in Players |-> IF p \in Q THEN NoPlayer ELSE tradePartner[p]]
      /\ tradeItem' = [p \in Players |-> IF p \in Q THEN NoItem ELSE tradeItem[p]]
      /\ tradeItems' = [i \in Items |-> IF \E p \in Q : tradeItem[p] = i THEN NoPlayer
                                        ELSE tradeItems[i]]
  BY DEF Trades!CloseTrades, Trades!Erased
<1> HIDE DEF Q
<1>3. /\ tradeState' \in [Players -> {"NONE", "INITIATED", "ACKNOWLEDGE", "ACCEPT"}]
      /\ tradePartner' \in [Players -> Players \cup {NoPlayer}]
      /\ tradeItem' \in [Players -> Items \cup {NoItem}]
      /\ tradeItems' \in [Items -> Players \cup {NoPlayer}]
  BY <1>2 DEF Trades!TypeOK
<1>4. NoOfferYet'
  BY <1>2 DEF NoOfferYet
<1>5. Trades!OffersRegistered'
  <2>1. ASSUME NEW p \in Players, NEW i \in Items
        PROVE  tradeItems'[i] = p <=> tradeItem'[p] = i
    <3>1. CASE p \in Q
      BY <1>1, <1>2, <3>1, PlayersAssumption DEF Trades!OffersRegistered, PlayersAssumption
    <3>2. CASE p \notin Q
      BY <1>1, <1>2, <3>2, PlayersAssumption DEF Trades!OffersRegistered, PlayersAssumption
    <3>3. QED
      BY <3>1, <3>2
  <2>2. \A p \in Players : tradeItem'[p] # NoItem => tradeState'[p] # "NONE"
    BY <1>2 DEF Trades!OffersRegistered
  <2>3. QED
    BY <2>1, <2>2 DEF Trades!OffersRegistered
<1>6. QED
  BY <1>1, <1>2, <1>3, <1>4, <1>5

LEMMA ClosingIsSymmetric ==
  ASSUME TradeIInv, NEW S \in SUBSET Players, Trades!CloseTrades(S),
         \A q \in playing : q \in playing' \/ q \in S \/ tradePartner[q] = NoPlayer
  PROVE  Trades!Symmetric'
<1> DEFINE Q == Trades!WithPartners(S)
<1> USE DEF TradeIInv, Trades!TradeInv
<1>1. /\ S \subseteq Q /\ Q \subseteq Players
      /\ tradeState' = [p \in Players |-> IF p \in Q THEN "NONE" ELSE tradeState[p]]
      /\ tradePartner' = [p \in Players |-> IF p \in Q THEN NoPlayer ELSE tradePartner[p]]
  BY DEF Trades!WithPartners, Trades!CloseTrades
<1>2. ASSUME NEW p \in Players, tradePartner[p] \in Players
      PROVE  p \in Q <=> tradePartner[p] \in Q
  <2>1. ASSUME NEW r \in Players, tradePartner[r] \in Players, r \in Q
        PROVE  tradePartner[r] \in Q
    BY <2>1 DEF Trades!WithPartners, Trades!Symmetric
  <2>2. tradePartner[tradePartner[p]] = p
    BY <1>2 DEF Trades!Symmetric
  <2>3. QED
    BY <1>2, <2>1, <2>2
<1> HIDE DEF Q
<1>3. ASSUME NEW p \in Players, NEW q \in Players, tradePartner'[p] = q
      PROVE  tradePartner'[q] = p /\ p # q /\ q \in playing'
  <2>1. p \notin Q /\ tradePartner[p] = q
    BY <1>1, <1>3, PlayersAssumption DEF PlayersAssumption
  <2>2. q \notin Q /\ tradePartner[q] = p /\ p # q /\ q \in playing
    BY <1>2, <2>1 DEF Trades!Symmetric
  <2>3. QED
    BY <1>1, <2>2, PlayersAssumption DEF PlayersAssumption
<1>4. ASSUME NEW p \in Players
      PROVE  tradeState'[p] = "NONE" <=> tradePartner'[p] = NoPlayer
  BY <1>1 DEF Trades!Symmetric, Trades!TypeOK
<1>5. QED
  BY <1>3, <1>4 DEF Trades!Symmetric

(* An offer that is still there and lies where it lay keeps what was tested.*)
LEMMA OffersStay ==
  ASSUME TradeIInv, NEW S \in SUBSET Players, Trades!CloseTrades(S), square' = square,
         \A p \in Players : p \notin S /\ tradeItem[p] # NoItem =>
           /\ Trades!Around(loc', tradeItem[p]) = Trades!Around(loc, tradeItem[p])
           /\ Trades!Root(loc', tradeItem[p]) = Trades!Root(loc, tradeItem[p])
  PROVE  Trades!OffersDisjoint' /\ Trades!OffersInReach'
<1>1. Trades!OffersRegistered' /\ tradeItems' \in [Items -> Players \cup {NoPlayer}]
  BY Closing
<1>2. ASSUME NEW p \in Players, tradeItem'[p] # NoItem
      PROVE  p \notin S /\ tradeItem'[p] = tradeItem[p]
  BY <1>2, Closing
<1>3. ASSUME NEW i \in Items, tradeItems'[i] # NoPlayer
      PROVE  /\ tradeItems[i] # NoPlayer
             /\ Trades!Around(loc', i) = Trades!Around(loc, i)
  <2>1. PICK p \in Players : tradeItems'[i] = p
    BY <1>1, <1>3
  <2>2. tradeItem'[p] = i /\ i # NoItem
    BY <1>1, <2>1, PlayersAssumption DEF Trades!OffersRegistered, PlayersAssumption
  <2>3. QED
    BY <1>2, <1>3, <2>2, Closing
<1>4. Trades!OffersDisjoint'
  <2> SUFFICES ASSUME NEW i \in Items, NEW j \in Items,
                      tradeItems'[i] # NoPlayer, tradeItems'[j] # NoPlayer, i # j
               PROVE  i \notin Trades!Around(loc', j) /\ j \notin Trades!Around(loc', i)
    BY DEF Trades!OffersDisjoint, Trades!Overlap, Trades!IsHoldingItem
  <2>1. i \notin Trades!Around(loc, j) /\ j \notin Trades!Around(loc, i)
    BY <1>3 DEF TradeIInv, Trades!TradeInv, Trades!OffersDisjoint, Trades!Overlap,
                Trades!IsHoldingItem
  <2>2. QED
    BY <1>3, <2>1
<1>5. Trades!OffersInReach'
  <2>1. ASSUME NEW p \in Players, tradePartner'[p] # NoPlayer
        PROVE  Trades!PlayersInRange(p, tradePartner[p])' /\ tradePartner'[p] = tradePartner[p]
    <3>1. tradePartner'[p] = tradePartner[p]
      BY <2>1, Closing
    <3>2. Trades!PlayersInRange(p, tradePartner[p])
      BY <2>1, <3>1 DEF TradeIInv, Trades!TradeInv, Trades!OffersInReach
    <3>3. QED
      BY <3>1, <3>2 DEF Trades!PlayersInRange
  <2>2. ASSUME NEW p \in Players, tradeItem'[p] # NoItem
        PROVE  /\ Trades!Root(loc', tradeItem'[p]) \in {p} \cup Squares
               /\ Trades!InReach(p, loc, tradeItem[p])'
    <3>1. /\ tradeItem'[p] = tradeItem[p]
          /\ Trades!Root(loc', tradeItem[p]) = Trades!Root(loc, tradeItem[p])
      BY <1>2, <2>2
    <3>2. /\ Trades!Root(loc, tradeItem[p]) \in {p} \cup Squares
          /\ Trades!InReach(p, loc, tradeItem[p])
      BY <2>2, <3>1 DEF TradeIInv, Trades!TradeInv, Trades!OffersInReach
    <3>3. QED
      BY <3>1, <3>2 DEF Trades!InReach, Trades!PositionOf
  <2>3. QED
    BY <2>1, <2>2 DEF Trades!OffersInReach
<1>6. QED
  BY <1>4, <1>5

LEMMA NothingMoves ==
  ASSUME TradeIInv, NEW S \in SUBSET Players, Trades!CloseTrades(S),
         UNCHANGED <<square, loc>>, playing' \subseteq Players, alive' \in BOOLEAN,
         \A q \in playing : q \in playing' \/ q \in S \/ tradePartner[q] = NoPlayer
  PROVE  TradeIInv'
<1>1. Trades!OffersDisjoint' /\ Trades!OffersInReach'
  BY OffersStay
<1>2. Trades!Symmetric'
  BY ClosingIsSymmetric
<1>3. Forest(loc)'
  BY DEF TradeIInv
<1>4. Trades!TypeOK' /\ Trades!OffersRegistered' /\ NoOfferYet'
  BY Closing DEF TradeIInv, Trades!TradeInv, Trades!TypeOK
<1>5. QED
  BY <1>1, <1>2, <1>3, <1>4 DEF TradeIInv, Trades!TradeInv

-----------------------------------------------------------------------------
LEMMA Distance ==
  ASSUME NEW a \in Int, NEW b \in Int
  PROVE  /\ Trades!Abs(a - b) = Trades!Abs(b - a) /\ Trades!Abs(a - b) \in Int
         /\ Trades!Abs(a - b) <= 1 => Trades!Abs(b - a) <= 2
BY DEF Trades!Abs

(* An item that moves closes the trade of an offer it is, holds or lies in: *)
(* its owner sees where it goes from, because the offer is in reach.        *)
Away(i, j) == j # i /\ i \notin Trades!Around(loc, j)

LEMMA Removal ==
  ASSUME TradeIInv, NEW p \in Players, tradeItem[p] # NoItem,
         NEW i \in Items, ~Trades!ClosedByRemoval(p, i)
  PROVE  Away(i, tradeItem[p])
<1> DEFINE j == tradeItem[p]
<1>1. /\ j \in Items /\ p \in playing /\ loc \in Placement /\ Forest(loc)
      /\ Trades!Root(loc, j) \in {p} \cup Squares /\ Trades!Root(loc, j) # Gone
      /\ Trades!Abs(Trades!PositionOf(loc, j) - square[p]) <= 1
  BY Offering, Placed DEF TradeIInv, Trades!TradeInv, Trades!OffersInReach, Trades!InReach
<1> HIDE DEF j
<1> SUFFICES ASSUME ~Away(i, j) PROVE FALSE
  BY DEF j
<1>2. Trades!Root(loc, i) = Trades!Root(loc, j)
  BY <1>1, RootAround DEF Away
<1>3. Trades!Sees(p, loc, loc[i])
  <2>0. square[p] \in Int /\ Squares \subseteq Int
    BY PlayersAssumption DEF PlayersAssumption, TradeIInv, Trades!TradeInv, Trades!TypeOK
  <2>1. CASE loc[i] \in Containers
    <3>1. Trades!Root(loc, loc[i]) = Trades!Root(loc, j)
      BY <1>1, <1>2, <2>1, RootLevel
    <3>2. Trades!PositionOf(loc, loc[i]) = Trades!PositionOf(loc, j)
            /\ Trades!PositionOf(loc, j) \in Int
      BY <1>1, <2>0, <3>1, PlayersAssumption DEF Trades!PositionOf, PlayersAssumption
    <3>3. Trades!Abs(square[p] - Trades!PositionOf(loc, loc[i])) <= 2
      BY <1>1, <2>0, <3>2, Distance
    <3>4. loc[i] \notin Players \cup Squares
      BY <2>1, Disjoint DEF Outside
    <3>5. QED
      BY <1>1, <3>1, <3>3, <3>4 DEF Trades!Sees
  <2>2. CASE loc[i] \notin Containers
    <3>1. loc[i] \in {p} \cup Squares /\ loc[i] = Trades!Root(loc, j)
      BY <1>1, <1>2, <2>2, RootLevel
    <3>2. CASE loc[i] = p
      BY <3>2 DEF Trades!Sees
    <3>3. CASE loc[i] \in Squares
      <4>1. loc[i] \notin Players /\ Trades!PositionOf(loc, j) = loc[i]
        BY <3>1, <3>3, PlayersAssumption DEF PlayersAssumption, Trades!PositionOf
      <4>2. Trades!Abs(square[p] - loc[i]) <= 2
        BY <1>1, <2>0, <3>3, <4>1, Distance
      <4>3. QED
        BY <3>3, <4>1, <4>2 DEF Trades!Sees
    <3>4. QED
      BY <3>1, <3>2, <3>3
  <2>3. QED
    BY <2>1, <2>2
<1>4. Trades!Overlap(i, j)
  BY DEF Away, Trades!Overlap, Trades!IsHoldingItem
<1>5. QED
  BY <1>1, <1>3, <1>4 DEF Trades!ClosedByRemoval, j

LEMMA OneMoves ==
  ASSUME TradeIInv, NEW i \in Items, NEW d, MayMove(loc, i, d), loc' = Moved(loc, i, d),
         UNCHANGED <<playing, square, alive>>,
         NEW S \in SUBSET Players, Trades!CloseTrades(S),
         \A p \in Players : tradeItem[p] # NoItem /\ Trades!ClosedByRemoval(p, i) => p \in S
  PROVE  TradeIInv'
<1>1. loc \in Placement /\ Forest(loc) /\ d \in Outside \cup Containers
  BY Placed DEF TradeIInv, Trades!TradeInv, MayMove
<1>2. ASSUME NEW p \in Players, p \notin S, tradeItem[p] # NoItem
      PROVE  /\ Trades!Around(loc', tradeItem[p]) = Trades!Around(loc, tradeItem[p])
             /\ Trades!Root(loc', tradeItem[p]) = Trades!Root(loc, tradeItem[p])
  <2>1. Away(i, tradeItem[p]) /\ tradeItem[p] \in Items
    BY <1>2, Removal, Offering
  <2>2. QED
    BY <1>1, <2>1, AroundStays, RootStays DEF Away
<1>3. Trades!OffersDisjoint' /\ Trades!OffersInReach'
  BY <1>2, OffersStay
<1>4. Trades!Symmetric'
  BY ClosingIsSymmetric
<1>5. Forest(loc')
  BY <1>1, ForestStays
<1>6. loc' \in Placement
  BY <1>1, MovedValue
<1>7. Trades!TypeOK' /\ Trades!OffersRegistered' /\ NoOfferYet'
  BY <1>6, Closing DEF TradeIInv, Trades!TradeInv, Trades!TypeOK, Placement, Outside
<1>8. QED
  BY <1>3, <1>4, <1>5, <1>7 DEF TradeIInv, Trades!TradeInv

-----------------------------------------------------------------------------
(* The handlers that move nothing.                                          *)
LEMMA RequestTradeKeeps ==
  ASSUME TradeIInv, NEW p \in Players, NEW q \in Players, NEW i \in Items,
         Trades!RequestTrade(p, q, i)
  PROVE  TradeIInv'
<1> USE DEF TradeIInv, Trades!TradeInv
<1>1. tradeItems[i] = NoPlayer
  BY DEF Trades!RequestTrade, Trades!BeingTraded, Trades!Overlap
<1>2. tradeItem[p] = NoItem
  BY DEF Trades!RequestTrade, NoOfferYet, Trades!OffersRegistered
<1>3. /\ tradeItem' = [tradeItem EXCEPT ![p] = i]
      /\ tradeItems' = [tradeItems EXCEPT ![i] = p]
      /\ UNCHANGED <<playing, square, loc, alive>>
  BY DEF Trades!RequestTrade
<1>4. p # q /\ p \in playing /\ q \in playing
  BY DEF Trades!RequestTrade
<1>5. /\ tradePartner' \in [Players -> Players \cup {NoPlayer}]
      /\ tradePartner'[p] = q /\ tradePartner'[q] = p
      /\ \A r \in Players \ {p, q} : tradePartner'[r] = tradePartner[r]
  <2>1. CASE tradeState[q] = "NONE"
    <3>1. tradePartner' = [tradePartner EXCEPT ![p] = q, ![q] = p]
      BY <2>1 DEF Trades!RequestTrade
    <3>2. QED
      BY <1>4, <3>1 DEF Trades!TypeOK
  <2>2. CASE tradeState[q] # "NONE"
    <3>1. tradePartner' = [tradePartner EXCEPT ![p] = q]
      BY <2>2 DEF Trades!RequestTrade
    <3>2. tradePartner[q] = p
      BY <2>2, PlayersAssumption DEF Trades!RequestTrade, Trades!Symmetric, PlayersAssumption
    <3>3. QED
      BY <1>4, <3>1, <3>2 DEF Trades!TypeOK
  <2>3. QED
    BY <2>1, <2>2
<1>6. /\ tradeState' \in [Players -> {"NONE", "INITIATED", "ACKNOWLEDGE", "ACCEPT"}]
      /\ tradeState'[p] = "INITIATED" /\ tradeState'[q] # "NONE"
      /\ tradeState'[q] = "ACKNOWLEDGE" => tradeState[q] \in {"NONE", "ACKNOWLEDGE"}
      /\ \A r \in Players \ {p, q} : tradeState'[r] = tradeState[r]
  <2>1. CASE tradeState[q] = "NONE"
    <3>1. tradeState' = [tradeState EXCEPT ![p] = "INITIATED", ![q] = "ACKNOWLEDGE"]
      BY <2>1 DEF Trades!RequestTrade
    <3>2. QED
      BY <1>4, <2>1, <3>1 DEF Trades!TypeOK
  <2>2. CASE tradeState[q] # "NONE"
    <3>1. tradeState' = [tradeState EXCEPT ![p] = "INITIATED"]
      BY <2>2 DEF Trades!RequestTrade
    <3>2. QED
      BY <1>4, <2>2, <3>1 DEF Trades!TypeOK
  <2>3. QED
    BY <2>1, <2>2
<1>7. Trades!Symmetric'
  <2>1. ASSUME NEW r \in Players \ {p, q} PROVE tradePartner[r] \notin {p, q}
    <3>1. /\ tradeState[p] = "NONE" \/ tradePartner[p] = q
          /\ tradeState[q] = "NONE" \/ tradePartner[q] = p
      BY DEF Trades!RequestTrade
    <3>2. QED
      BY <1>4, <3>1, PlayersAssumption DEF Trades!Symmetric, Trades!TypeOK, PlayersAssumption
  <2>2. ASSUME NEW r \in Players, NEW s \in Players, tradePartner'[r] = s
        PROVE  tradePartner'[s] = r /\ r # s /\ s \in playing'
    BY <1>3, <1>4, <1>5, <2>1, <2>2 DEF Trades!Symmetric
  <2>3. ASSUME NEW r \in Players
        PROVE  tradeState'[r] = "NONE" <=> tradePartner'[r] = NoPlayer
    BY <1>5, <1>6, PlayersAssumption DEF Trades!Symmetric, PlayersAssumption
  <2>4. QED
    BY <2>2, <2>3 DEF Trades!Symmetric
<1>8. NoOfferYet'
  BY <1>3, <1>4, <1>6 DEF NoOfferYet, Trades!OffersRegistered, Trades!TypeOK
<1>9. Trades!OffersRegistered'
  <2>1. ASSUME NEW r \in Players, NEW j \in Items
        PROVE  tradeItems'[j] = r <=> tradeItem'[r] = j
    BY <1>1, <1>2, <1>3, PlayersAssumption DEF Trades!OffersRegistered, Trades!TypeOK,
       PlayersAssumption
  <2>2. ASSUME NEW r \in Players, tradeItem'[r] # NoItem PROVE tradeState'[r] # "NONE"
    BY <1>3, <1>6, <2>2 DEF Trades!OffersRegistered, Trades!TypeOK
  <2>3. QED
    BY <2>1, <2>2 DEF Trades!OffersRegistered
<1>10. Trades!OffersDisjoint'
  <2> SUFFICES ASSUME NEW j \in Items, NEW k \in Items,
                      tradeItems'[j] # NoPlayer, tradeItems'[k] # NoPlayer, j # k
               PROVE  ~Trades!Overlap(j, k)'
    BY DEF Trades!OffersDisjoint
  <2>1. ~Trades!Overlap(j, k)
    BY <1>3 DEF Trades!TypeOK, Trades!OffersDisjoint, Trades!RequestTrade, Trades!BeingTraded,
                Trades!Overlap
  <2>2. QED
    BY <1>3, <2>1 DEF Trades!Overlap
<1>11. Trades!OffersInReach'
  <2>1. ASSUME NEW r \in Players, tradePartner'[r] # NoPlayer
        PROVE  Trades!PlayersInRange(r, tradePartner'[r])
    <3>1. Trades!PlayersInRange(p, q) /\ Trades!PlayersInRange(q, p)
      BY Distance, PlayersAssumption DEF Trades!RequestTrade, Trades!PlayersInRange, Trades!TypeOK,
         PlayersAssumption
    <3>2. QED
      BY <1>5, <2>1, <3>1 DEF Trades!OffersInReach
  <2>2. ASSUME NEW r \in Players, tradeItem'[r] # NoItem
        PROVE  /\ Trades!Root(loc, tradeItem'[r]) \in {r} \cup Squares
               /\ Trades!InReach(r, loc, tradeItem'[r])
    BY <1>3, <2>2 DEF Trades!RequestTrade, Trades!OffersInReach, Trades!TypeOK
  <2>3. QED
    BY <1>3, <2>1, <2>2 DEF Trades!OffersInReach, Trades!PlayersInRange, Trades!InReach,
       Trades!PositionOf
<1>12. Trades!TypeOK' /\ Forest(loc)'
  BY <1>3, <1>5, <1>6 DEF Trades!TypeOK
<1>13. QED
  BY <1>7, <1>8, <1>9, <1>10, <1>11, <1>12

LEMMA AcceptFirstKeeps ==
  ASSUME TradeIInv, NEW p \in Players, Trades!AcceptFirst(p)
  PROVE  TradeIInv'
<1> USE DEF TradeIInv, Trades!TradeInv
<1>1. /\ tradeState' = [tradeState EXCEPT ![p] = "ACCEPT"] /\ tradeState[p] # "NONE"
      /\ UNCHANGED <<playing, square, loc, tradePartner, tradeItem, tradeItems, alive>>
  BY DEF Trades!AcceptFirst, Trades!MayAccept
<1>2. Trades!TypeOK' /\ Forest(loc)' /\ NoOfferYet'
  BY <1>1 DEF Trades!TypeOK, NoOfferYet
<1>3. Trades!Symmetric' /\ Trades!OffersRegistered'
  BY <1>1 DEF Trades!TypeOK, Trades!Symmetric, Trades!OffersRegistered
<1>4. Trades!OffersDisjoint' /\ Trades!OffersInReach'
  BY <1>1 DEF Trades!OffersDisjoint, Trades!OffersInReach, Trades!Overlap, Trades!PlayersInRange,
              Trades!InReach, Trades!PositionOf
<1>5. QED
  BY <1>2, <1>3, <1>4

(* A trade that a player leaves by walking is closed: what is kept is in    *)
(* reach of the new place as well, and partners are in range.               *)
LEMMA WalkKeeps ==
  ASSUME TradeIInv, NEW p \in Players, NEW to \in Squares, Trades!Walk(p, to)
  PROVE  TradeIInv'
<1> DEFINE S == IF Trades!ClosedByMove(p, to) THEN {p} ELSE {}
<1>1. /\ square' = [square EXCEPT ![p] = to] /\ Trades!CloseTrades(S)
      /\ UNCHANGED <<playing, loc, alive>> /\ S \in SUBSET Players
      /\ S = {} => ~Trades!ClosedByMove(p, to)
  BY DEF Trades!Walk
<1> HIDE DEF S
<1>2. Trades!Symmetric'
  BY <1>1, ClosingIsSymmetric
<1>3. /\ Trades!OffersRegistered' /\ NoOfferYet' /\ Trades!TypeOK' /\ Forest(loc)'
      /\ p \in S => tradePartner'[p] = NoPlayer /\ tradeItem'[p] = NoItem
      /\ \A r \in Players : /\ tradePartner'[r] # NoPlayer => tradePartner'[r] = tradePartner[r]
                            /\ tradeItem'[r] # NoItem => tradeItem'[r] = tradeItem[r]
  BY <1>1, Closing DEF TradeIInv, Trades!TradeInv, Trades!TypeOK
<1>4. ASSUME NEW i \in Items, tradeItems'[i] # NoPlayer
      PROVE  tradeItems[i] # NoPlayer
  BY <1>1, <1>4, Closing
<1>5. Trades!OffersDisjoint'
  BY <1>1, <1>4 DEF TradeIInv, Trades!TradeInv, Trades!OffersDisjoint, Trades!Overlap
<1>6. /\ Squares \subseteq Int /\ \A r \in Players : square[r] \in Int
      /\ \A r \in Players : square'[r] = IF r = p THEN to ELSE square[r]
  BY <1>1, PlayersAssumption DEF TradeIInv, Trades!TradeInv, Trades!TypeOK, PlayersAssumption
<1>7. ASSUME p \notin S PROVE ~Trades!ClosedByMove(p, to)
  BY <1>7 DEF S
<1>8. ASSUME NEW r \in Players, tradePartner'[r] # NoPlayer
      PROVE  Trades!PlayersInRange(r, tradePartner[r])'
  <2>1. /\ tradePartner'[r] \in Players /\ tradePartner'[r] = tradePartner[r]
        /\ tradePartner[r] # r /\ tradePartner'[tradePartner[r]] = r
    BY <1>2, <1>3, <1>8 DEF Trades!TypeOK, Trades!Symmetric
  <2>2. Trades!PlayersInRange(r, tradePartner[r])
    BY <1>8, <2>1 DEF TradeIInv, Trades!TradeInv, Trades!OffersInReach
  <2>3. CASE p \in {r, tradePartner[r]}
    <3>1. tradePartner'[p] # NoPlayer /\ tradePartner[p] = tradePartner'[p]
      BY <1>3, <1>8, <2>1, <2>3, PlayersAssumption DEF PlayersAssumption
    <3>2. ~Trades!ClosedByMove(p, to)
      BY <1>3, <1>7, <3>1
    <3>3. ~(Trades!Abs(square[tradePartner[p]] - to) > 2)
      BY <3>1, <3>2 DEF Trades!ClosedByMove
    <3>4. tradePartner[p] \in Players /\ p # tradePartner[p]
            /\ {p, tradePartner[p]} = {r, tradePartner[r]}
      BY <1>3, <2>1, <2>3, <3>1
    <3>5. /\ Trades!Abs(square[tradePartner[p]] - to) <= 2
          /\ Trades!Abs(to - square[tradePartner[p]]) <= 2
      BY <1>6, <3>3, <3>4, Distance
    <3>6. QED
      BY <1>6, <2>1, <3>4, <3>5 DEF Trades!PlayersInRange
  <2>4. CASE p \notin {r, tradePartner[r]}
    BY <1>6, <2>1, <2>2, <2>4 DEF Trades!PlayersInRange
  <2>5. QED
    BY <2>3, <2>4
<1>9. ASSUME NEW r \in Players, tradeItem'[r] # NoItem
      PROVE  /\ Trades!Root(loc', tradeItem'[r]) \in {r} \cup Squares
             /\ Trades!InReach(r, loc, tradeItem[r])'
  <2> DEFINE R == Trades!Root(loc, tradeItem[r])
  <2>1. /\ tradeItem'[r] = tradeItem[r] /\ R \in {r} \cup Squares
        /\ Trades!Root(loc, tradeItem[r])' = R
        /\ R # Gone /\ Trades!Abs(Trades!PositionOf(loc, tradeItem[r]) - square[r]) <= 1
    BY <1>1, <1>3, <1>9 DEF TradeIInv, Trades!TradeInv, Trades!OffersInReach, Trades!InReach
  <2>2. R \in Players => Trades!PositionOf(loc, tradeItem[r])' = square'[r]
    BY <1>1, <2>1, PlayersAssumption DEF Trades!PositionOf, PlayersAssumption
  <2>3. R \notin Players =>
          Trades!PositionOf(loc, tradeItem[r])' = R /\ Trades!PositionOf(loc, tradeItem[r]) = R
    BY <1>1, <2>1 DEF Trades!PositionOf
  <2>4. CASE R \in Players
    <3>1. Trades!Abs(square'[r] - square'[r]) <= 1
      BY <1>6 DEF Trades!Abs
    <3>2. QED
      BY <2>1, <2>2, <2>4, <3>1 DEF Trades!InReach
  <2>5. CASE R \notin Players /\ r # p
    BY <1>6, <2>1, <2>3, <2>5 DEF Trades!InReach
  <2>6. CASE R \notin Players /\ r = p
    <3>1. ~Trades!ClosedByMove(p, to)
      BY <1>3, <1>7, <1>9, <2>6
    <3>2. Trades!Abs(R - to) <= 1
      <4>1. ~(Trades!Abs(R - to) > 1)
        BY <2>1, <2>3, <2>6, <3>1, <1>9 DEF Trades!ClosedByMove
      <4>2. R \in Int
        BY <1>6, <2>1, <2>6
      <4>3. QED
        BY <1>6, <4>1, <4>2, Distance
    <3>3. QED
      BY <1>6, <2>1, <2>3, <2>6, <3>2 DEF Trades!InReach
  <2>7. QED
    BY <2>4, <2>5, <2>6
<1>10. Trades!OffersInReach'
  <2>1. \A r \in Players : tradePartner'[r] # NoPlayer => Trades!PlayersInRange(r, tradePartner[r])'
    BY <1>8
  <2>2. \A r \in Players : tradeItem'[r] # NoItem =>
          /\ Trades!Root(loc', tradeItem'[r]) \in {r} \cup Squares
          /\ Trades!InReach(r, loc, tradeItem[r])'
    BY <1>9
  <2>3. QED
    BY <2>1, <2>2 DEF Trades!OffersInReach
<1>11. QED
  BY <1>2, <1>3, <1>5, <1>10 DEF TradeIInv, Trades!TradeInv

(* Who is not in the game is in no trade.                                   *)
LEMMA LoginKeeps ==
  ASSUME TradeIInv, NEW p \in Players, Trades!Login(p)
  PROVE  TradeIInv'
<1> USE DEF TradeIInv, Trades!TradeInv
<1>1. /\ p \notin playing /\ playing' = playing \cup {p}
      /\ UNCHANGED <<loc, tradeState, tradePartner, tradeItem, tradeItems, alive>>
  BY DEF Trades!Login, Trades!tradeVars
<1>2. PICK x \in Squares : square' = [square EXCEPT ![p] = x]
  BY DEF Trades!Login
<1>3. tradePartner[p] = NoPlayer /\ tradeItem[p] = NoItem
  BY <1>1, Offering
<1>4. \A r \in Players : tradePartner[r] # p
  BY <1>3, PlayersAssumption DEF Trades!Symmetric, PlayersAssumption
<1>5. Trades!TypeOK' /\ Trades!Symmetric' /\ Trades!OffersRegistered' /\ Forest(loc)' /\ NoOfferYet'
  BY <1>1, <1>2 DEF Trades!TypeOK, Trades!Symmetric, Trades!OffersRegistered, NoOfferYet
<1>6. Trades!OffersDisjoint'
  BY <1>1 DEF Trades!OffersDisjoint, Trades!Overlap
<1>7. \A r \in Players \ {p} : square'[r] = square[r]
  BY <1>2 DEF Trades!TypeOK
<1>8. Trades!OffersInReach'
  <2>1. ASSUME NEW r \in Players, tradePartner[r] # NoPlayer
        PROVE  Trades!PlayersInRange(r, tradePartner[r])'
    <3>1. tradePartner[r] \in Players \ {p} /\ r # p
      BY <1>3, <1>4, <2>1 DEF Trades!TypeOK
    <3>2. QED
      BY <1>1, <1>7, <2>1, <3>1 DEF Trades!OffersInReach, Trades!PlayersInRange
  <2>2. ASSUME NEW r \in Players, tradeItem[r] # NoItem
        PROVE  /\ Trades!Root(loc, tradeItem[r]) \in {r} \cup Squares
               /\ Trades!InReach(r, loc, tradeItem[r])'
    <3>1. r # p
      BY <1>3, <2>2
    <3>2. /\ Trades!Root(loc, tradeItem[r]) \in {r} \cup Squares
          /\ Trades!InReach(r, loc, tradeItem[r])
      BY <2>2 DEF Trades!OffersInReach
    <3>3. Trades!PositionOf(loc, tradeItem[r])' = Trades!PositionOf(loc, tradeItem[r])
      BY <1>1, <1>7, <3>1, <3>2, PlayersAssumption DEF Trades!PositionOf, PlayersAssumption
    <3>4. QED
      BY <1>1, <1>7, <3>1, <3>2, <3>3 DEF Trades!InReach
  <2>3. QED
    BY <1>1, <2>1, <2>2 DEF Trades!OffersInReach
<1>9. QED
  BY <1>5, <1>6, <1>8

-----------------------------------------------------------------------------
(* The handlers that move items.                                            *)
LEMMA MoveItemMoves ==
  ASSUME TradeIInv, NEW p \in Players, NEW i \in Items,
         NEW d \in Players \cup Squares \cup Containers, Trades!MoveItem(p, i, d)
  PROVE  /\ MayMove(loc, i, d) /\ loc' = Moved(loc, i, d)
         /\ Trades!Root(loc, i) \in {p} \cup Squares
         /\ RootOf(loc, d) \in {p} \cup Squares
<1>1. d \in Outside \cup Containers
  BY DEF Outside
<1>2. d \in Containers <=> d \notin Outside
  BY Disjoint DEF Outside
<1>3. /\ d = p \/ d \in Squares \/ (/\ d \in Containers /\ d # i /\ i \notin Trades!Around(loc, d)
                                    /\ Trades!Root(loc, d) \in {p} \cup Squares)
      /\ Trades!Root(loc, i) \in {p} \cup Squares
      /\ loc' = [loc EXCEPT ![i] = d]
  BY DEF Trades!MoveItem, Trades!IsHoldingItem
<1>4. MayMove(loc, i, d) /\ loc' = Moved(loc, i, d)
  BY <1>1, <1>2, <1>3 DEF MayMove, Moved, Outside
<1>5. RootOf(loc, d) \in {p} \cup Squares
  BY <1>2, <1>3 DEF RootOf, Outside
<1>6. QED
  BY <1>3, <1>4, <1>5

LEMMA MoveItemKeeps ==
  ASSUME TradeIInv, NEW p \in Players, NEW i \in Items,
         NEW d \in Players \cup Squares \cup Containers, Trades!MoveItem(p, i, d)
  PROVE  TradeIInv'
<1> DEFINE S == {o \in Players : Trades!ClosedByRemoval(o, i) \/ Trades!ClosedByAdding(o, d)}
<1>1. /\ Trades!CloseTrades(S) /\ UNCHANGED <<playing, square, alive>> /\ S \in SUBSET Players
      /\ \A o \in Players : tradeItem[o] # NoItem /\ Trades!ClosedByRemoval(o, i) => o \in S
  BY DEF Trades!MoveItem
<1> HIDE DEF S
<1>2. MayMove(loc, i, d) /\ loc' = Moved(loc, i, d)
  BY MoveItemMoves
<1>3. QED
  BY <1>1, <1>2, OneMoves

LEMMA RemoveItemMoves ==
  ASSUME NEW i \in Items, Trades!RemoveItem(i)
  PROVE  MayMove(loc, i, Gone) /\ loc' = Moved(loc, i, Gone) /\ RootOf(loc, Gone) = Gone
<1>1. Gone \in Outside /\ Gone \notin Containers
  BY Disjoint DEF Outside
<1>2. QED
  BY <1>1 DEF Trades!RemoveItem, MayMove, Moved, RootOf

LEMMA RemoveItemKeeps ==
  ASSUME TradeIInv, NEW i \in Items, Trades!RemoveItem(i)
  PROVE  TradeIInv'
<1> DEFINE S == {o \in Players : Trades!ClosedByRemoval(o, i)}
<1>1. /\ Trades!CloseTrades(S) /\ UNCHANGED <<playing, square, alive>> /\ S \in SUBSET Players
      /\ \A o \in Players : tradeItem[o] # NoItem /\ Trades!ClosedByRemoval(o, i) => o \in S
  BY DEF Trades!RemoveItem
<1> HIDE DEF S
<1>2. MayMove(loc, i, Gone) /\ loc' = Moved(loc, i, Gone)
  BY RemoveItemMoves
<1>3. QED
  BY <1>1, <1>2, OneMoves

LEMMA DestinationsMove ==
  ASSUME NEW l \in Placement, NEW i \in Items, NEW q \in Players,
         NEW d \in Trades!Destinations(l, q, i)
  PROVE  /\ MayMove(l, i, d) /\ RootOf(l, d) = q
         /\ d \in Players \/ d \in Containers
<1>1. q \in Outside /\ q \notin Containers
  BY Disjoint DEF Outside
<1>2. d = q \/ (d \in Containers \ {i} /\ Trades!Root(l, d) = q /\ i \notin Trades!Around(l, d))
  BY DEF Trades!Destinations, Trades!IsHoldingItem
<1>3. QED
  BY <1>1, <1>2 DEF MayMove, RootOf

(* The two offers of a trade that both have accepted.                       *)
LEMMA TwoOffers ==
  ASSUME TradeIInv, NEW p \in Players, Trades!AcceptsSecond(p), Trades!BothOffer(p)
  PROVE  /\ tradePartner[p] \in Players \ {p} /\ p \in playing
         /\ tradeItem[p] \in Items /\ tradeItem[tradePartner[p]] \in Items
         /\ tradeItem[p] # tradeItem[tradePartner[p]]
         /\ tradeItems[tradeItem[p]] = p
         /\ tradeItems[tradeItem[tradePartner[p]]] = tradePartner[p]
         /\ Away(tradeItem[p], tradeItem[tradePartner[p]])
<1> DEFINE q == tradePartner[p]
<1>1. q \in Players \ {p} /\ p \in playing
  BY Offering DEF Trades!BothOffer
<1> HIDE DEF q
<1>2. tradeItem[p] # NoItem /\ tradeItem[q] # NoItem
  BY DEF Trades!BothOffer, q
<1>3. /\ tradeItem[p] \in Items /\ tradeItems[tradeItem[p]] = p
      /\ tradeItem[q] \in Items /\ tradeItems[tradeItem[q]] = q
  BY <1>1, <1>2, Offering
<1>4. tradeItem[p] # tradeItem[q]
  BY <1>1, <1>3
<1>5. ~Trades!Overlap(tradeItem[q], tradeItem[p])
  BY <1>1, <1>3, <1>4, PlayersAssumption DEF TradeIInv, Trades!TradeInv, Trades!OffersDisjoint,
     PlayersAssumption
<1>6. Away(tradeItem[p], tradeItem[q])
  BY <1>4, <1>5 DEF Away, Trades!Overlap, Trades!IsHoldingItem
<1>7. QED
  BY <1>1, <1>3, <1>4, <1>6 DEF q

(* The offers of others are apart from both.                                *)
LEMMA OtherOffers ==
  ASSUME TradeIInv, NEW p \in Players, tradeItem[p] # NoItem,
         NEW r \in Players \ {p}, tradeItem[r] # NoItem
  PROVE  Away(tradeItem[p], tradeItem[r])
<1>1. /\ tradeItem[p] \in Items /\ tradeItems[tradeItem[p]] = p
      /\ tradeItem[r] \in Items /\ tradeItems[tradeItem[r]] = r
  BY Offering
<1>2. tradeItem[p] # tradeItem[r]
  BY <1>1
<1>3. ~Trades!Overlap(tradeItem[r], tradeItem[p])
  BY <1>1, <1>2, PlayersAssumption DEF TradeIInv, Trades!TradeInv, Trades!OffersDisjoint,
     PlayersAssumption
<1>4. QED
  BY <1>2, <1>3 DEF Away, Trades!Overlap, Trades!IsHoldingItem

(* Both moves of an exchange: what either player gets ends in his hands,    *)
(* and what lies apart from both items stays.                               *)
LEMMA TwoMoves ==
  ASSUME NEW l \in Placement, Forest(l), NEW p \in Players, NEW q \in Players,
         NEW a \in Items, NEW b \in Items, a # b, a \notin Trades!Around(l, b),
         NEW d \in Trades!Destinations(l, q, a), d # b, d \in Containers
           => b \notin Trades!Around(l, d),
         NEW e \in Trades!Destinations(Moved(l, a, d), p, b)
  PROVE  LET k == Moved(Moved(l, a, d), b, e) IN
         /\ k \in Placement /\ Forest(k)
         /\ Trades!Root(k, a) = q /\ Trades!Root(k, b) = p
         /\ \A x \in Items \ {a, b} : a \notin Trades!Around(l, x)
              /\ b \notin Trades!Around(l, x) =>
              Trades!Around(k, x) = Trades!Around(l, x) /\ Trades!Root(k, x) = Trades!Root(l, x)
<1> DEFINE m == Moved(l, a, d)
           k == Moved(m, b, e)
<1>1. MayMove(l, a, d) /\ RootOf(l, d) = q /\ d \in Outside \cup Containers
  BY DestinationsMove DEF MayMove
<1>2. /\ m \in Placement /\ Forest(m) /\ m[a] = d
      /\ Trades!Root(m, a) = q
  BY <1>1, MovedValue, ForestStays, RootMoves
<1>3. ASSUME NEW x \in Items \ {a}, a \notin Trades!Around(l, x)
      PROVE  Trades!Around(m, x) = Trades!Around(l, x) /\ Trades!Root(m, x) = Trades!Root(l, x)
  BY <1>1, <1>3, AroundStays, RootStays
<1> HIDE DEF m
<1>4. MayMove(m, b, e) /\ RootOf(m, e) = p /\ e \in Outside \cup Containers
  BY <1>2, DestinationsMove DEF MayMove, m
<1>5. k \in Placement /\ Forest(k) /\ Trades!Root(k, b) = p
  BY <1>2, <1>4, MovedValue, ForestStays, RootMoves
<1>6. ASSUME NEW x \in Items \ {b}, b \notin Trades!Around(m, x)
      PROVE  Trades!Around(k, x) = Trades!Around(m, x) /\ Trades!Root(k, x) = Trades!Root(m, x)
  BY <1>2, <1>4, <1>6, AroundStays, RootStays
<1> HIDE DEF k
<1>7. b \notin Trades!Around(m, a)
  <2>1. CASE d \in Containers
    <3>1. d \in Items \ {a} /\ a \notin Trades!Around(l, d)
      BY <1>1, <2>1, Disjoint DEF MayMove
    <3>2. Trades!Around(m, a) = {d} \cup Trades!Around(l, d)
      BY <1>2, <1>3, <2>1, <3>1, Level
    <3>3. QED
      BY <2>1, <3>2
  <2>2. CASE d \notin Containers
    BY <1>2, <2>2, Level
  <2>3. QED
    BY <2>1, <2>2
<1>8. Trades!Root(k, a) = q
  BY <1>2, <1>6, <1>7
<1>9. \A x \in Items \ {a, b} : a \notin Trades!Around(l, x) /\ b \notin Trades!Around(l, x) =>
        Trades!Around(k, x) = Trades!Around(l, x) /\ Trades!Root(k, x) = Trades!Root(l, x)
  BY <1>3, <1>6
<1>10. QED
  BY <1>5, <1>8, <1>9 DEF k, m

LEMMA ExchangeMoves ==
  ASSUME TradeIInv, NEW p \in Players, Trades!Exchange(p)
  PROVE  \E d, e \in Players \cup Containers :
           LET q == tradePartner[p]
               a == tradeItem[p]
               b == tradeItem[q]
           IN /\ d \in Trades!Destinations(loc, q, a) /\ d # b
              /\ d \in Containers => b \notin Trades!Around(loc, d)
              /\ e \in Trades!Destinations(Moved(loc, a, d), p, b)
              /\ loc' = Moved(Moved(loc, a, d), b, e)
              /\ Trades!CloseTrades({p} \cup Trades!WatchersOf(q, a, d) \cup Trades!WatchersOf(q, b,
                   e))
<1> DEFINE q == tradePartner[p]
           a == tradeItem[p]
           b == tradeItem[q]
<1>1. PICK d \in Players \cup Containers :
        /\ Trades!FirstMove(p, a, b, d)
        /\ \E e \in Trades!Destinations(Moved(loc, a, d), p, b) :
             /\ loc' = Moved(Moved(loc, a, d), b, e)
             /\ Trades!CloseTrades({p} \cup Trades!WatchersOf(q, a, d) \cup Trades!WatchersOf(q, b,
                  e))
  BY DEF Trades!Exchange, Moved
<1>2. PICK e \in Trades!Destinations(Moved(loc, a, d), p, b) :
             /\ loc' = Moved(Moved(loc, a, d), b, e)
             /\ Trades!CloseTrades({p} \cup Trades!WatchersOf(q, a, d) \cup Trades!WatchersOf(q, b,
                  e))
  BY <1>1
<1>3. e \in Players \cup Containers
  BY DEF Trades!Destinations
<1>4. /\ d \in Trades!Destinations(loc, q, a) /\ d # b
      /\ d \in Containers => b \notin Trades!Around(loc, d)
  BY <1>1, Disjoint DEF Trades!FirstMove, Trades!Misplaces, Trades!IsHoldingItem
<1>5. QED
  BY <1>2, <1>3, <1>4

LEMMA ExchangeKeeps ==
  ASSUME TradeIInv, NEW p \in Players, Trades!Exchange(p)
  PROVE  TradeIInv'
<1> DEFINE q == tradePartner[p]
           a == tradeItem[p]
           b == tradeItem[q]
<1>1. PICK d, e \in Players \cup Containers :
        /\ d \in Trades!Destinations(loc, q, a) /\ d # b
        /\ d \in Containers => b \notin Trades!Around(loc, d)
        /\ e \in Trades!Destinations(Moved(loc, a, d), p, b)
        /\ loc' = Moved(Moved(loc, a, d), b, e)
        /\ Trades!CloseTrades({p} \cup Trades!WatchersOf(q, a, d) \cup Trades!WatchersOf(q, b, e))
  BY ExchangeMoves
<1>2. UNCHANGED <<playing, square, alive>> /\ Trades!AcceptsSecond(p) /\ Trades!BothOffer(p)
  BY DEF Trades!Exchange
<1>3. /\ q \in Players \ {p} /\ a \in Items /\ b \in Items /\ a # b
      /\ a \notin Trades!Around(loc, b) /\ loc \in Placement /\ Forest(loc)
  BY <1>2, TwoOffers, Placed DEF Away, TradeIInv, Trades!TradeInv
<1> DEFINE S == {p} \cup Trades!WatchersOf(q, a, d) \cup Trades!WatchersOf(q, b, e)
<1>4. /\ S \in SUBSET Players /\ p \in S /\ Trades!CloseTrades(S)
      /\ \A o \in Players \ {p, q} :
           Trades!ClosedByRemoval(o, a) \/ Trades!ClosedByRemoval(o, b) => o \in S
  BY <1>1 DEF Trades!WatchersOf
<1> HIDE DEF S, q, a, b
<1>5. /\ loc' \in Placement /\ Forest(loc')
      /\ \A x \in Items \ {a, b} : a \notin Trades!Around(loc, x)
           /\ b \notin Trades!Around(loc, x) =>
              Trades!Around(loc', x) = Trades!Around(loc, x)
                /\ Trades!Root(loc', x) = Trades!Root(loc, x)
  BY <1>1, <1>3, TwoMoves
<1>6. Trades!Symmetric'
  BY <1>2, <1>4, ClosingIsSymmetric
<1>7. Trades!TypeOK' /\ Trades!OffersRegistered' /\ NoOfferYet'
  BY <1>2, <1>4, <1>5, Closing DEF TradeIInv, Trades!TradeInv, Trades!TypeOK, Placement, Outside
<1>8. Trades!OffersDisjoint' /\ Trades!OffersInReach'
  <2> DEFINE Q == S \cup {q}
  <2>1. Trades!CloseTrades(Q) /\ Q \in SUBSET Players
    <3>1. Trades!WithPartners(Q) = Trades!WithPartners(S)
      <4>1. tradePartner[p] = q /\ tradePartner[q] = p
        BY <1>2, Offering DEF q, Trades!BothOffer
      <4>2. QED
        BY <1>3, <1>4, <4>1 DEF Trades!WithPartners
    <3>2. QED
      BY <1>3, <1>4, <3>1 DEF Trades!CloseTrades
  <2>2. ASSUME NEW o \in Players, o \notin Q, tradeItem[o] # NoItem
        PROVE  /\ Trades!Around(loc', tradeItem[o]) = Trades!Around(loc, tradeItem[o])
               /\ Trades!Root(loc', tradeItem[o]) = Trades!Root(loc, tradeItem[o])
    <3>1. Away(a, tradeItem[o]) /\ Away(b, tradeItem[o]) /\ tradeItem[o] \in Items
      BY <1>3, <1>4, <2>2, Removal, Offering
    <3>2. QED
      BY <1>5, <3>1 DEF Away
  <2> HIDE DEF Q
  <2>3. QED
    BY <1>2, <2>1, <2>2, OffersStay
<1>9. QED
  BY <1>5, <1>6, <1>7, <1>8 DEF TradeIInv, Trades!TradeInv

LEMMA HalfExchangeMoves ==
  ASSUME TradeIInv, NEW p \in Players, Trades!HalfExchange(p)
  PROVE  \E d \in Players \cup Containers :
           LET q == tradePartner[p]
               a == tradeItem[p]
           IN /\ d \in Trades!Destinations(loc, q, a)
              /\ loc' = Moved(loc, a, d)
              /\ Trades!CloseTrades({p} \cup Trades!WatchersOf(q, a, d))
BY DEF Trades!HalfExchange, Trades!FirstMove, Moved

LEMMA HalfExchangeKeeps ==
  ASSUME TradeIInv, NEW p \in Players, Trades!HalfExchange(p)
  PROVE  TradeIInv'
<1> DEFINE q == tradePartner[p]
           a == tradeItem[p]
<1>1. PICK d \in Players \cup Containers :
        /\ d \in Trades!Destinations(loc, q, a)
        /\ loc' = Moved(loc, a, d)
        /\ Trades!CloseTrades({p} \cup Trades!WatchersOf(q, a, d))
  BY HalfExchangeMoves
<1>2. UNCHANGED <<playing, square, alive>> /\ Trades!AcceptsSecond(p) /\ Trades!BothOffer(p)
  BY DEF Trades!HalfExchange
<1>3. /\ q \in Players \ {p} /\ a \in Items /\ loc \in Placement
      /\ tradePartner[p] = q /\ tradePartner[q] = p
  BY <1>2, TwoOffers, Offering, Placed DEF TradeIInv, Trades!TradeInv, Trades!BothOffer
<1>4. MayMove(loc, a, d)
  BY <1>1, <1>3, DestinationsMove
<1> DEFINE S == {p} \cup Trades!WatchersOf(q, a, d)
           Q == S \cup {q}
<1>5. Trades!CloseTrades(Q) /\ Q \in SUBSET Players
  <2>1. Trades!WithPartners(Q) = Trades!WithPartners(S)
    BY <1>3 DEF Trades!WithPartners
  <2>2. S \in SUBSET Players
    BY DEF Trades!WatchersOf
  <2>3. QED
    BY <1>1, <1>3, <2>1, <2>2 DEF Trades!CloseTrades
<1>6. \A o \in Players : tradeItem[o] # NoItem /\ Trades!ClosedByRemoval(o, a) => o \in Q
  BY DEF Trades!WatchersOf
<1> HIDE DEF Q, S, a, q
<1>7. QED
  BY <1>1, <1>2, <1>3, <1>4, <1>5, <1>6, OneMoves

LEMMA TradesStep == TradeIInv /\ [Trades!Next]_(Trades!vars) => TradeIInv'
<1> SUFFICES ASSUME TradeIInv, [Trades!Next]_(Trades!vars) PROVE TradeIInv'
  OBVIOUS
<1>1. ASSUME NEW p \in Players, NEW q \in Players, NEW i \in Items, Trades!RequestTrade(p, q, i)
      PROVE  TradeIInv'
  BY <1>1, RequestTradeKeeps
<1>2. ASSUME NEW p \in Players, Trades!AcceptFirst(p) PROVE TradeIInv'
  BY <1>2, AcceptFirstKeeps
<1>3. ASSUME NEW p \in Players, Trades!Exchange(p) PROVE TradeIInv'
  BY <1>3, ExchangeKeeps
<1>4. ASSUME NEW p \in Players, Trades!HalfExchange(p) PROVE TradeIInv'
  BY <1>4, HalfExchangeKeeps
<1>5. ASSUME NEW p \in Players, Trades!ExchangeFails(p) \/ Trades!CloseTrade(p) PROVE TradeIInv'
  <2>1. /\ Trades!CloseTrades({p}) /\ UNCHANGED <<playing, square, loc, alive>>
        /\ {p} \in SUBSET Players
    BY <1>5 DEF Trades!ExchangeFails, Trades!CloseTrade
  <2>2. playing' \subseteq Players /\ alive' \in BOOLEAN
    BY <2>1 DEF TradeIInv, Trades!TradeInv, Trades!TypeOK
  <2>3. QED
    BY <2>1, <2>2, NothingMoves
<1>6. ASSUME NEW p \in Players, Trades!ExchangeNothing(p) PROVE TradeIInv'
  <2>1. CASE Trades!CloseTrades({p}) /\ UNCHANGED <<playing, alive, square, loc>>
    <3>1. playing' \subseteq Players /\ alive' \in BOOLEAN /\ {p} \in SUBSET Players
      BY <2>1 DEF TradeIInv, Trades!TradeInv, Trades!TypeOK
    <3>2. QED
      BY <2>1, <3>1, NothingMoves
  <2>2. CASE /\ alive' = FALSE /\ playing' = {} /\ Trades!CloseTrades(Players)
             /\ UNCHANGED <<square, loc>>
    <3>1. playing' \subseteq Players /\ playing \subseteq Players /\ Players \in SUBSET Players
      BY <2>2 DEF TradeIInv, Trades!TradeInv, Trades!TypeOK
    <3>2. QED
      BY <2>2, <3>1, NothingMoves
  <2>3. QED
    BY <1>6, <2>1, <2>2 DEF Trades!ExchangeNothing
<1>7. ASSUME NEW p \in Players, Trades!Logout(p) PROVE TradeIInv'
  <2> DEFINE S == IF tradePartner[p] # NoPlayer THEN {p} ELSE {}
  <2>1. /\ Trades!CloseTrades(S) /\ playing' = playing \ {p} /\ UNCHANGED <<square, loc, alive>>
        /\ S \in SUBSET Players
        /\ \A q \in playing : q \in playing' \/ q \in S \/ tradePartner[q] = NoPlayer
    BY <1>7 DEF Trades!Logout
  <2>2. playing' \subseteq Players /\ alive' \in BOOLEAN
    BY <2>1 DEF TradeIInv, Trades!TradeInv, Trades!TypeOK
  <2> HIDE DEF S
  <2>3. QED
    BY <2>1, <2>2, NothingMoves
<1>8. ASSUME NEW p \in Players, Trades!Login(p) PROVE TradeIInv'
  BY <1>8, LoginKeeps
<1>9. ASSUME NEW p \in Players, NEW to \in Squares, Trades!Walk(p, to) PROVE TradeIInv'
  BY <1>9, WalkKeeps
<1>10. ASSUME NEW p \in Players, NEW i \in Items,
              NEW d \in Players \cup Squares \cup Containers, Trades!MoveItem(p, i, d)
       PROVE  TradeIInv'
  BY <1>10, MoveItemKeeps
<1>11. ASSUME NEW i \in Items, Trades!RemoveItem(i) PROVE TradeIInv'
  BY <1>11, RemoveItemKeeps
<1>12. CASE UNCHANGED Trades!vars
  BY <1>12 DEF Trades!vars, TradeIInv, Trades!TradeInv, Trades!TypeOK, Trades!Symmetric,
               Trades!OffersRegistered, Trades!OffersDisjoint,
     Trades!OffersInReach, NoOfferYet, Trades!Overlap, Trades!PlayersInRange, Trades!InReach,
       Trades!PositionOf
<1>13. QED
  BY <1>1, <1>2, <1>3, <1>4, <1>5, <1>6, <1>7, <1>8, <1>9, <1>10, <1>11, <1>12 DEF Trades!Next

(* The two players and the table of offers always tell the same story of a  *)
(* trade, and offers stay apart and in reach, for any number of players and *)
(* items nested to any depth.                                               *)
THEOREM TradesAgree == Trades!Spec => []TradeInv
<1>1. TradeIInv => TradeInv
  BY DEF TradeIInv, TradeInv
<1>2. QED
  BY <1>1, TradesInitially, TradesStep, PTL DEF Trades!Spec

-----------------------------------------------------------------------------
(* Only an exchange puts an item from one player's hands into another's.    *)
LEMMA NotByOneMove ==
  ASSUME TradeIInv, NEW i \in Items, NEW d, MayMove(loc, i, d), loc' = Moved(loc, i, d),
         NEW p \in Players, Trades!Gives(p)
  PROVE  ~Away(i, tradeItem[p]) /\ Trades!Root(loc, i) = p /\ RootOf(loc, d) = tradePartner[p]
<1> DEFINE a == tradeItem[p]
           q == tradePartner[p]
<1>1. /\ a \in Items /\ q # p /\ Trades!Root(loc, a) = p /\ Trades!Root(loc', a) = q
      /\ loc \in Placement /\ Forest(loc)
  BY Offering, Placed DEF Trades!Gives, TradeIInv, Trades!TradeInv
<1> HIDE DEF a, q
<1>2. ~Away(i, a)
  BY <1>1, RootStays DEF Away
<1>3. Trades!Root(loc, i) = p
  BY <1>1, <1>2, RootAround DEF Away
<1>4. Trades!Root(loc', a) = RootOf(loc, d)
  BY <1>1, <1>2, RootMoves, RootFollows DEF Away
<1>5. QED
  BY <1>1, <1>2, <1>3, <1>4 DEF a, q

LEMMA Mutual ==
  ASSUME TradeIInv, [Trades!Next]_(Trades!vars), NEW p \in Players, Trades!Gives(p)
  PROVE  Trades!Gets(p) \/ Trades!NeedsSlot(p, tradeItem[p], tradeItem[tradePartner[p]])
<1>1. /\ tradePartner[p] \in Players \ {p} /\ tradeItem[p] \in Items
      /\ tradePartner[tradePartner[p]] = p
      /\ Trades!Root(loc, tradeItem[p]) = p /\ Trades!Root(loc', tradeItem[p]) = tradePartner[p]
      /\ tradeItem[p] # NoItem /\ loc \in Placement /\ Forest(loc)
  BY Offering, Placed DEF Trades!Gives, TradeIInv, Trades!TradeInv
<1>2. CASE loc' = loc
  BY <1>1, <1>2
<1>3. ASSUME NEW o \in Players, NEW i \in Items,
             NEW d \in Players \cup Squares \cup Containers, Trades!MoveItem(o, i, d)
      PROVE  FALSE
  <2>1. /\ Trades!Root(loc, i) = p /\ RootOf(loc, d) = tradePartner[p]
        /\ Trades!Root(loc, i) \in {o} \cup Squares /\ RootOf(loc, d) \in {o} \cup Squares
    BY <1>3, MoveItemMoves, NotByOneMove
  <2>2. QED
    BY <1>1, <2>1, PlayersAssumption DEF PlayersAssumption
<1>4. ASSUME NEW i \in Items, Trades!RemoveItem(i) PROVE FALSE
  <2>1. Gone = tradePartner[p]
    BY <1>4, RemoveItemMoves, NotByOneMove
  <2>2. QED
    BY <1>1, <2>1, PlayersAssumption DEF PlayersAssumption
<1>5. ASSUME NEW o \in Players, Trades!Exchange(o) PROVE Trades!Gets(p)
  <2> DEFINE q == tradePartner[o]
             a == tradeItem[o]
             b == tradeItem[q]
  <2>1. PICK d, e \in Players \cup Containers :
          /\ d \in Trades!Destinations(loc, q, a) /\ d # b
          /\ d \in Containers => b \notin Trades!Around(loc, d)
          /\ e \in Trades!Destinations(Moved(loc, a, d), o, b)
          /\ loc' = Moved(Moved(loc, a, d), b, e)
    BY <1>5, ExchangeMoves
  <2>2. Trades!AcceptsSecond(o) /\ Trades!BothOffer(o)
    BY <1>5 DEF Trades!Exchange
  <2>3. /\ q \in Players \ {o} /\ a \in Items /\ b \in Items /\ a # b
        /\ a \notin Trades!Around(loc, b) /\ a # NoItem /\ b # NoItem
    BY <2>2, TwoOffers DEF Away, Trades!BothOffer
  <2>4. tradePartner[q] = o
    BY <2>2, Offering DEF Trades!BothOffer
  <2> HIDE DEF q, a, b
  <2>5. /\ Trades!Root(loc', a) = q /\ Trades!Root(loc', b) = o
        /\ \A x \in Items \ {a, b} : a \notin Trades!Around(loc, x)
             /\ b \notin Trades!Around(loc, x) =>
              Trades!Root(loc', x) = Trades!Root(loc, x)
    BY <1>1, <2>1, <2>3, TwoMoves
  <2>6. CASE p = o
    BY <2>3, <2>5, <2>6 DEF Trades!Gets, q, b
  <2>7. CASE p = q
    BY <2>3, <2>4, <2>5, <2>7 DEF Trades!Gets, a
  <2>8. CASE p \notin {o, q}
    <3>1. Away(a, tradeItem[p]) /\ Away(b, tradeItem[p])
      BY <1>1, <2>3, <2>8, OtherOffers DEF a, b
    <3>2. Trades!Root(loc', tradeItem[p]) = Trades!Root(loc, tradeItem[p])
      BY <1>1, <2>5, <3>1 DEF Away
    <3>3. QED
      BY <1>1, <3>2
  <2>9. QED
    BY <2>6, <2>7, <2>8
<1>6. ASSUME NEW o \in Players, Trades!HalfExchange(o)
      PROVE  Trades!NeedsSlot(p, tradeItem[p], tradeItem[tradePartner[p]])
  <2>1. PICK d \in Players \cup Containers :
          /\ d \in Trades!Destinations(loc, tradePartner[o], tradeItem[o])
          /\ loc' = Moved(loc, tradeItem[o], d)
    BY <1>6, HalfExchangeMoves
  <2>2. /\ Trades!AcceptsSecond(o) /\ Trades!BothOffer(o)
        /\ Trades!NeedsSlot(o, tradeItem[o], tradeItem[tradePartner[o]])
    BY <1>6 DEF Trades!HalfExchange
  <2>3. tradePartner[o] \in Players /\ tradeItem[o] \in Items /\ tradeItem[o] # NoItem
    BY <2>2, TwoOffers DEF Trades!BothOffer
  <2>4. MayMove(loc, tradeItem[o], d)
    BY <1>1, <2>1, <2>3, DestinationsMove
  <2>5. ~Away(tradeItem[o], tradeItem[p])
    BY <2>1, <2>3, <2>4, NotByOneMove
  <2>6. p = o
    BY <1>1, <2>3, <2>5, OtherOffers
  <2>7. QED
    BY <2>2, <2>6
<1>7. CASE UNCHANGED loc
  BY <1>2, <1>7
<1>8. QED
  BY <1>3, <1>4, <1>5, <1>6, <1>7
     DEF Trades!Next, Trades!vars, Trades!RequestTrade, Trades!AcceptFirst, Trades!ExchangeFails,
         Trades!ExchangeNothing, Trades!CloseTrade,
         Trades!Logout, Trades!Login, Trades!Walk

(* When an offer leaves its owner's hands for the partner's, the partner's  *)
(* offer comes back in the same step, unless it is a stack that needs a     *)
(* slot of its own.                                                         *)
THEOREM ExchangesAreMutual == Trades!Spec => ExchangeIsMutual
<1>1. TradeIInv /\ [Trades!Next]_(Trades!vars) =>
        [\A p \in Players :
                Trades!Gives(p)
                  => Trades!Gets(p)
                  \/ Trades!NeedsSlot(p, tradeItem[p], tradeItem[tradePartner[p]])]_(Trades!vars)
  BY Mutual
<1>2. QED
  BY <1>1, TradesInitially, TradesStep, PTL DEF Trades!Spec, ExchangeIsMutual,
     Trades!ExchangeIsMutual

-----------------------------------------------------------------------------
(* Side by side in MCPlayers both keep what they promise.                   *)
THEOREM PlayersAgree == PlayersSpec => [](PartyInv /\ TradeInv)
<1>1. PlayersInit => IInv /\ TradeIInv
  BY PartyAssumption, Initially, TradesInitially DEF PlayersInit
<1>2. IInv /\ TradeIInv /\ [PlayersNext]_<<vars, tradesVars, busy>> => IInv' /\ TradeIInv'
  <2>1. [PlayersNext]_<<vars, tradesVars, busy>> => [Next]_vars /\ [Trades!Next]_(Trades!vars)
    BY DEF PlayersNext, tradesVars, Trades!vars
  <2>2. QED
    BY <2>1, PartyAssumption, Inductive, TradesStep
<1>3. IInv /\ TradeIInv => PartyInv /\ TradeInv
  BY PartyAssumption, Counting DEF TradeIInv, TradeInv
<1>4. QED
  BY <1>1, <1>2, <1>3, PTL DEF PlayersSpec

=============================================================================
