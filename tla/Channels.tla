------------------------------ MODULE Channels ------------------------------
(***************************************************************************)
(* Chat channels and who listens to them (chat.cpp), with the members of   *)
(* guilds who are online (guild.cpp, player.cpp).  A channel keeps raw     *)
(* pointers to its users, and to the invited if it is private; the channel *)
(* of a guild is found through the player's guild, that of a party by the  *)
(* address of the player's party, and a private one by its number.         *)
(*                                                                         *)
(* Channels of the configuration are like those of guilds without a guild  *)
(* and left out.  Scripts of channels do not open or close others.  Of a   *)
(* party there is only who is in it (see Party); ranks, buffs and wars of  *)
(* guilds are not modelled.                                                *)
(***************************************************************************)
EXTENDS Naturals, FiniteSets, FiniteSetsExt

CONSTANTS
  Players,
  Premium,   \* those with a premium account
  Guilds,
  Ranked,    \* the guilds that have a default rank
  Addresses, \* of parties
  Numbers,   \* of private channels, 1..n; at least one for each player
  NoGuild, NoParty, NoChannel

VARIABLES
  online,
  guild,         \* of each player
  party,         \* of each player
  membersOnline, \* of each guild
  guildUsers,    \* of the channel of each guild, NoChannel if there is none
  partyUsers,    \* of the channel of each address
  privates,      \* each private channel: owner, invites and users
  orphans        \* history: players who have been put from a guild into one
                 \* without a default rank

vars == <<online, guild, party, membersOnline, guildUsers, partyUsers, privates,
          orphans>>

Channel ==
  {NoChannel} \cup [owner : Players, invites : SUBSET Players, users : SUBSET Players]

TypeOK ==
  /\ online \subseteq Players /\ orphans \subseteq Players
  /\ guild \in [Players -> Guilds \cup {NoGuild}]
  /\ party \in [Players -> Addresses \cup {NoParty}]
  /\ membersOnline \in [Guilds -> SUBSET Players]
  /\ guildUsers \in [Guilds -> (SUBSET Players) \cup {NoChannel}]
  /\ partyUsers \in [Addresses -> (SUBSET Players) \cup {NoChannel}]
  /\ privates \in [Numbers -> Channel]

Init ==
  /\ online = {} /\ orphans = {}
  /\ guild = [p \in Players |-> NoGuild]
  /\ party = [p \in Players |-> NoParty]
  /\ membersOnline = [g \in Guilds |-> {}]
  /\ guildUsers = [g \in Guilds |-> NoChannel]
  /\ partyUsers = [a \in Addresses |-> NoChannel]
  /\ privates = [n \in Numbers |-> NoChannel]

membership == <<online, guild, party, membersOnline, orphans>>
channels == <<guildUsers, partyUsers, privates>>

Existing(chans) == {n \in Numbers : chans[n] # NoChannel}
OwnedBy(p) == {n \in Existing(privates) : privates[n].owner = p}

(* Variants of the operators, each with one slip a change of this code     *)
(* could make; the runs must notice them.                                  *)
KeepsInvitation(c, p) == [c EXCEPT !.users = @ \ {p}]
KeepsListening(c, p) == [c EXCEPT !.invites = @ \ {p}]
AlwaysMay(p) == p \in Premium /\ Existing(privates) # Numbers
NeverDeletes(p, n) == [privates[n] EXCEPT !.users = @ \ {p}]
JoinsOnly(p, g) == [x \in Guilds |-> membersOnline[x] \cup {q \in {p} : x = g}]

-----------------------------------------------------------------------------
(* Channels. *)

Without(users, p) == IF users = NoChannel THEN users ELSE users \ {p}

(* removeInvite and removeUser. *)
Struck(c, p) == [c EXCEPT !.users = @ \ {p}, !.invites = @ \ {p}]

(* Chat::removeUserFromAllChannels; a private channel goes with its owner.  *)
RemoveFromAll(p, ofParties) ==
  /\ guildUsers' = [g \in Guilds |-> Without(guildUsers[g], p)]
  /\ partyUsers' = [a \in Addresses |-> Without(ofParties[a], p)]
  /\ privates' = [n \in Numbers |->
       IF n \in OwnedBy(p) \/ privates[n] = NoChannel THEN NoChannel
       ELSE Struck(privates[n], p)]

(* Chat::getChannelList: it makes the channels of guild and party that are  *)
(* not there yet.                                                           *)
RequestChannels(p) ==
  LET Made(users) == IF users = NoChannel THEN {} ELSE users
  IN /\ p \in online
     /\ guildUsers' = [g \in Guilds |-> IF g = guild[p] THEN Made(guildUsers[g])
                                        ELSE guildUsers[g]]
     /\ partyUsers' = [a \in Addresses |-> IF a = party[p] THEN Made(partyUsers[a])
                                           ELSE partyUsers[a]]
     /\ UNCHANGED <<membership, privates>>

IsInvited(p, n) ==
  n \in Existing(privates) /\ p \in privates[n].invites \cup {privates[n].owner}

(* playerOpenChannel, for each kind of channel. *)
OpenGuildChannel(p) ==
  /\ p \in online /\ guild[p] # NoGuild /\ guildUsers[guild[p]] # NoChannel
  /\ guildUsers' = [guildUsers EXCEPT ![guild[p]] = @ \cup {p}]
  /\ UNCHANGED <<membership, partyUsers, privates>>

OpenPartyChannel(p) ==
  /\ p \in online /\ party[p] # NoParty /\ partyUsers[party[p]] # NoChannel
  /\ partyUsers' = [partyUsers EXCEPT ![party[p]] = @ \cup {p}]
  /\ UNCHANGED <<membership, guildUsers, privates>>

OpenPrivateChannel(p) ==
  /\ p \in online
  /\ \E n \in Numbers :
       /\ IsInvited(p, n)
       /\ privates' = [privates EXCEPT ![n].users = @ \cup {p}]
  /\ UNCHANGED <<membership, guildUsers, partyUsers>>

(* removeUserFromChannel, of the channel the player finds by its guild and  *)
(* party as they are now.                                                   *)
LeftGuild(now, p) ==
  [g \in Guilds |-> IF g = now[p] THEN Without(guildUsers[g], p) ELSE guildUsers[g]]
LeftParty(now, ps) ==
  [a \in Addresses |-> IF partyUsers[a] = NoChannel THEN NoChannel
                       ELSE partyUsers[a] \ {p \in ps : now[p] = a}]

(* The owner takes the channel along. *)
LeftPrivate(p, n) ==
  IF privates[n].owner = p THEN NoChannel ELSE [privates[n] EXCEPT !.users = @ \ {p}]

(* playerCloseChannel. *)
CloseChannel(p) ==
  /\ p \in online
  /\ \/ guildUsers' = LeftGuild(guild, p) /\ UNCHANGED <<partyUsers, privates>>
     \/ partyUsers' = LeftParty(party, {p}) /\ UNCHANGED <<guildUsers, privates>>
     \/ \E n \in Numbers :
          /\ IsInvited(p, n) /\ p \in privates[n].users
          /\ privates' = [privates EXCEPT ![n] = LeftPrivate(p, n)]
          /\ UNCHANGED <<guildUsers, partyUsers>>
  /\ UNCHANGED membership

(* playerCreatePrivateChannel. *)
MayCreate(p) == p \in Premium /\ OwnedBy(p) = {}

CreatePrivateChannel(p) ==
  /\ p \in online /\ MayCreate(p)
  /\ privates' = [privates EXCEPT ![Min(Numbers \ Existing(privates))] =
                    [owner |-> p, invites |-> {}, users |-> {p}]]
  /\ UNCHANGED <<membership, guildUsers, partyUsers>>

(* playerChannelInvite and playerChannelExclude; getPrivateChannel is the   *)
(* first that p owns.                                                       *)
ChannelInvite(p, q) ==
  /\ {p, q} \subseteq online /\ p # q /\ OwnedBy(p) # {}
  /\ privates' = [privates EXCEPT ![Min(OwnedBy(p))].invites = @ \cup {q}]
  /\ UNCHANGED <<membership, guildUsers, partyUsers>>

ChannelExclude(p, q) ==
  /\ {p, q} \subseteq online /\ p # q /\ OwnedBy(p) # {}
  /\ q \in privates[Min(OwnedBy(p))].invites
  /\ privates' = [privates EXCEPT ![Min(OwnedBy(p))] = Struck(@, q)]
  /\ UNCHANGED <<membership, guildUsers, partyUsers>>

-----------------------------------------------------------------------------
(* Guilds and parties. *)

(* Player::setGuild, of scripts.  A guild without a default rank leaves the *)
(* player without one, and the old guild is not told.                       *)
Moved(p, g) ==
  [x \in Guilds |-> (membersOnline[x] \cup {q \in {p} : x = g})
                    \ {q \in {p} : x = guild[p]}]

SetGuild(p, g) ==
  /\ p \in online /\ g # guild[p]
  /\ IF g \in Guilds \ Ranked
     THEN /\ guild' = [guild EXCEPT ![p] = NoGuild]
          /\ orphans' = orphans \cup {q \in {p} : guild[p] # NoGuild}
          /\ UNCHANGED membersOnline
     ELSE /\ guild' = [guild EXCEPT ![p] = g]
          /\ membersOnline' = Moved(p, g)
          /\ UNCHANGED orphans
  /\ UNCHANGED <<online, party, channels>>

(* A party is founded at an address that is free, or joined. *)
JoinParty(p, a) ==
  /\ p \in online /\ party[p] = NoParty
  /\ party' = [party EXCEPT ![p] = a]
  /\ UNCHANGED <<online, guild, membersOnline, orphans, channels>>

(* Party::leaveParty and disband forget the party of each of `ps` before    *)
(* they close its channel for them.                                         *)
Quitting(p) == {{p}, {q \in Players : party[q] = party[p]}}
Quit(ps) == [p \in Players |-> IF p \in ps THEN NoParty ELSE party[p]]

LeaveParty(p) ==
  /\ p \in online /\ party[p] # NoParty
  /\ \E ps \in Quitting(p) :
       party' = Quit(ps) /\ partyUsers' = LeftParty(Quit(ps), ps)
  /\ UNCHANGED <<online, guild, membersOnline, orphans, guildUsers, privates>>

-----------------------------------------------------------------------------
(* Players come and go. *)

(* Player::onCreatureAppear; the guild is the one the database names.       *)
Login(p) ==
  /\ p \notin online /\ online' = online \cup {p}
  /\ \E g \in Guilds \cup {NoGuild} :
       /\ guild' = [guild EXCEPT ![p] = g]
       /\ membersOnline' = [x \in Guilds |-> membersOnline[x] \cup {q \in {p} : x = g}]
  /\ UNCHANGED <<party, orphans, channels>>

(* ProtocolGame::connect, when another client takes over. *)
Connect(p) ==
  /\ p \in online /\ RemoveFromAll(p, partyUsers)
  /\ UNCHANGED membership

(* Player::onRemoveCreature: the party, all channels, the guild.            *)
Logout(p) ==
  /\ p \in online /\ online' = online \ {p}
  /\ \E ps \in IF party[p] = NoParty THEN {{}} ELSE Quitting(p) :
       /\ party' = Quit(ps)
       /\ RemoveFromAll(p, LeftParty(Quit(ps), ps))
  /\ membersOnline' = [x \in Guilds |-> membersOnline[x] \ {q \in {p} : x = guild[p]}]
  /\ guild' = [guild EXCEPT ![p] = NoGuild]
  /\ UNCHANGED orphans

Next ==
  \E p \in Players :
    \/ RequestChannels(p) \/ OpenGuildChannel(p) \/ OpenPartyChannel(p)
    \/ OpenPrivateChannel(p) \/ CloseChannel(p) \/ CreatePrivateChannel(p)
    \/ \E q \in Players : ChannelInvite(p, q) \/ ChannelExclude(p, q)
    \/ \E g \in Guilds \cup {NoGuild} : SetGuild(p, g)
    \/ \E a \in Addresses : JoinParty(p, a)
    \/ LeaveParty(p) \/ Login(p) \/ Connect(p) \/ Logout(p)

Spec == Init /\ [][Next]_vars

-----------------------------------------------------------------------------
(* Properties. *)

Listening ==
  (UNION ({guildUsers[g] : g \in Guilds} \ {NoChannel}))
  \cup (UNION ({partyUsers[a] : a \in Addresses} \ {NoChannel}))
  \cup UNION {privates[n].users \cup privates[n].invites : n \in Existing(privates)}

(* ChatChannel::users, PrivateChatChannel::invites and                      *)
(* Guild::m_vMembersOnline point at players: whoever listens or is invited  *)
(* is online.  A private channel has an owner who listens, nobody has two,  *)
(* and no others listen than who is invited.  The members of a guild who    *)
(* are online are those whose guild it is, save those that were put into a  *)
(* guild without a default rank.                                            *)
ChannelsInv ==
  /\ TypeOK
  /\ Listening \subseteq online
  /\ \A n \in Existing(privates) :
       /\ privates[n].owner \in privates[n].users
       /\ privates[n].users \subseteq privates[n].invites \cup {privates[n].owner}
  /\ \A p \in Players : Cardinality(OwnedBy(p)) <= 1
  /\ \A g \in Guilds :
       membersOnline[g] \ orphans = {p \in online : guild[p] = g} \ orphans

(* Not kept by the code, see the README: only members listen to the channel *)
(* of a party or a guild (Party::leaveParty, Player::setGuild).             *)
OnlyMembersListen ==
  /\ \A a \in Addresses :
       partyUsers[a] # NoChannel => \A p \in partyUsers[a] : party[p] = a
  /\ \A g \in Guilds :
       guildUsers[g] # NoChannel => \A p \in guildUsers[g] : guild[p] = g
=============================================================================
