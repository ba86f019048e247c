----------------------------- MODULE TownProofs ------------------------------
(***************************************************************************)
(* Proofs about the components of MCTown, for any values of its constants  *)
(* that satisfy TownAssumption: beds, the shops of NPCs and whom an NPC    *)
(* sees, channels and guilds, the steps of a monster that keeps away, and  *)
(* items that decay; and about the two of MCWorld, with WorldAssumption:   *)
(* spawns and raids.  Conditions and combat are left to TLC.               *)
(***************************************************************************)
EXTENDS MCTown, MCWorld, ListFacts

(* What the components ask of the constants. *)
LEMMA BedsAssumption ==
  /\ Owners \subseteq Players
  /\ Partner \in [Halves -> Halves]
  /\ \A h \in Halves : Partner[h] # h /\ Partner[Partner[h]] = h
  /\ Nobody \notin Players /\ NoBed \notin Halves
BY TownAssumption

LEMMA NpcsAssumption ==
  /\ IsFiniteSet(Buyers) /\ Buyers \cap Npcs = {} /\ NoNpc \notin Npcs
BY TownAssumption

LEMMA ChannelsAssumption ==
  /\ IsFiniteSet(Players) /\ IsFiniteSet(Numbers)
  /\ Numbers = 1..Cardinality(Numbers) /\ Cardinality(Numbers) >= Cardinality(Players)
  /\ NoGuild \notin Guilds /\ NoParty \notin Addresses /\ Ranked \subseteq Guilds
BY TownAssumption

LEMMA FlightAssumption == TargetDistance \in Nat /\ Reach \in Nat
BY TownAssumption

LEMMA DecayAssumption ==
  /\ Kinds # {}
  /\ DecayTime \in [Kinds -> Nat] /\ DecayTo \in [Kinds -> Kinds \cup {Vanish, NoDecay}]
  /\ StopTime \subseteq Kinds /\ \A k \in StopTime : DecayTime[k] = 0
  /\ Durations \subseteq Nat
  /\ MaxEntries \in Nat /\ MaxEntries >= 2
  /\ {Vanish, NoDecay} \cap Kinds = {} /\ Vanish # NoDecay
BY TownAssumption

LEMMA SpawnsAssumption ==
  /\ Blocks = 1..Cardinality(Blocks) /\ IsFiniteSet(Blocks)
  /\ Delay \in [Blocks -> Nat]
  /\ Monsters \subseteq Nat /\ IsFiniteSet(Monsters)
  /\ MaxLosses \in Nat /\ MaxRefusals \in Nat
BY WorldAssumption

LEMMA RaidsAssumption ==
  /\ Repeats \subseteq Names /\ Length \in [Names -> Nat]
  /\ MaxReloads \in Nat
  /\ NoRaid \notin Raiding!AllRaids
BY WorldAssumption DEF Raiding!AllRaids

LEMMA NaturalNumbers == Numbers \subseteq Nat
<1>1. Cardinality(Numbers) \in Nat
  BY ChannelsAssumption, FS_CardinalityType
<1>2. 1..Cardinality(Numbers) \subseteq Nat
  BY <1>1
<1>3. QED
  BY <1>2, ChannelsAssumption

LEMMA FirstNumber ==
  ASSUME NEW S \in SUBSET Nat, S # {}
  PROVE  Chat!Min(S) \in S
BY LeastNumber DEF Chat!Min

-----------------------------------------------------------------------------
(* Beds.  The other half has the same sleeper, in the house and in the       *)
(* database, and who did not lie down twice has one bed at most in either.   *)
Paired(who) == \A h \in Halves : who[h] = who[Partner[h]]

SleepAgrees(p) ==
  IF Sleep!BedsOf(sleeper, p) = {} THEN bedSleepersMap[p] = NoBed
  ELSE bedSleepersMap[p] # NoBed /\ Sleep!BedsOf(sleeper, p) = Sleep!Both(bedSleepersMap[p])

BedsIInv ==
  /\ Sleep!TypeOK
  /\ Paired(sleeper) /\ Paired(saved)
  /\ \A p \in Players \ hasty :
       /\ SleepAgrees(p)
       /\ Sleep!BedsOf(saved, p) # {} => \E h \in Halves : Sleep!BedsOf(saved, p) = Sleep!Both(h)
       /\ p \in awake \ kicks => Sleep!BedsOf(sleeper, p) = {}

(* A half is in the bed of its other half. *)
LEMMA BothFacts ==
  /\ \A h \in Halves : Sleep!Both(h) \subseteq Halves
  /\ \A h \in Halves : \A k \in Sleep!Both(h) : Sleep!Both(k) = Sleep!Both(h)
  /\ \A who : Paired(who) => \A h \in Halves : \A k \in Sleep!Both(h) : who[k] = who[h]
<1> USE BedsAssumption DEF Sleep!Both
<1>1. \A h \in Halves : Sleep!Both(h) \subseteq Halves
  OBVIOUS
<1>2. \A h \in Halves : \A k \in Sleep!Both(h) : Sleep!Both(k) = Sleep!Both(h)
  OBVIOUS
<1>3. \A who : Paired(who) => \A h \in Halves : \A k \in Sleep!Both(h) : who[k] = who[h]
  BY DEF Paired
<1>4. QED
  BY <1>1, <1>2, <1>3

LEMMA BedsInitially == Sleep!Init => BedsIInv
<1> SUFFICES ASSUME Sleep!Init PROVE BedsIInv
  OBVIOUS
<1> USE BedsAssumption DEF Sleep!Init, Sleep!Empty
<1>1. Sleep!TypeOK
  BY DEF Sleep!TypeOK
<1>2. Paired(sleeper) /\ Paired(saved)
  BY DEF Paired
<1>3. \A p \in Players : Sleep!BedsOf(sleeper, p) = {} /\ Sleep!BedsOf(saved, p) = {}
  BY DEF Sleep!BedsOf
<1>4. QED
  BY <1>1, <1>2, <1>3 DEF BedsIInv, SleepAgrees

(* wakeUp of some halves: whoever sleeps there has no bed any more, and for  *)
(* the others nothing changes.                                               *)
LEMMA BedsWoken ==
  ASSUME BedsIInv, NEW hs \in SUBSET Halves, Sleep!WakeUp(hs)
  PROVE  /\ sleeper' \in [Halves -> Players \cup {Nobody}]
         /\ bedSleepersMap' \in [Players -> Halves \cup {NoBed}]
         /\ Paired(sleeper')
         /\ \A p \in Players :
              /\ Sleep!BedsOf(sleeper', p) \subseteq Sleep!BedsOf(sleeper, p)
              /\ p \notin hasty => SleepAgrees(p)'
              /\ p \notin hasty /\ Sleep!BedsOf(sleeper, p) \cap hs # {} =>
                   Sleep!BedsOf(sleeper', p) = {}
<1>1. /\ sleeper \in [Halves -> Players \cup {Nobody}]
      /\ bedSleepersMap \in [Players -> Halves \cup {NoBed}]
      /\ Paired(sleeper)
  BY DEF BedsIInv, Sleep!TypeOK
<1>2. /\ sleeper' \in [Halves -> Players \cup {Nobody}]
      /\ \A h \in Halves :
           sleeper'[h] = IF \E k \in hs : h \in Sleep!Both(k) THEN Nobody ELSE sleeper[h]
  BY <1>1 DEF Sleep!WakeUp
<1>3. /\ bedSleepersMap' \in [Players -> Halves \cup {NoBed}]
      /\ \A p \in Players :
           bedSleepersMap'[p] = IF p \in {sleeper[h] : h \in hs} THEN NoBed
                                ELSE bedSleepersMap[p]
  BY <1>1 DEF Sleep!WakeUp, Sleep!Unlisted
<1>4. Paired(sleeper')
  <2>1. ASSUME NEW h \in Halves PROVE sleeper'[h] = sleeper'[Partner[h]]
    <3>1. Partner[h] \in Halves /\ sleeper[h] = sleeper[Partner[h]]
      BY <1>1, BedsAssumption DEF Paired
    <3>2. \A k \in hs : h \in Sleep!Both(k) <=> Partner[h] \in Sleep!Both(k)
      BY BedsAssumption DEF Sleep!Both
    <3>3. QED
      BY <1>2, <3>1, <3>2
  <2>2. QED
    BY <2>1 DEF Paired
<1>5. ASSUME NEW p \in Players
      PROVE  Sleep!BedsOf(sleeper', p)
               = {h \in Sleep!BedsOf(sleeper, p) : \A k \in hs : h \notin Sleep!Both(k)}
  BY <1>2, BedsAssumption DEF Sleep!BedsOf
<1>6. ASSUME NEW p \in Players \ hasty
      PROVE  /\ SleepAgrees(p)'
             /\ Sleep!BedsOf(sleeper, p) \cap hs # {} => Sleep!BedsOf(sleeper', p) = {}
  <2>1. SleepAgrees(p)
    BY DEF BedsIInv
  <2>2. CASE Sleep!BedsOf(sleeper, p) \cap hs # {}
    <3>1. PICK h \in hs : h \in Halves /\ sleeper[h] = p
      BY <2>2 DEF Sleep!BedsOf
    <3>2. bedSleepersMap'[p] = NoBed
      BY <1>3, <3>1
    <3>3. /\ bedSleepersMap[p] \in Halves
          /\ Sleep!BedsOf(sleeper, p) = Sleep!Both(bedSleepersMap[p])
               /\ h \in Sleep!BedsOf(sleeper, p)
      BY <1>1, <2>1, <3>1 DEF SleepAgrees, Sleep!BedsOf
    <3>4. Sleep!BedsOf(sleeper, p) = Sleep!Both(h)
      BY <3>3, BothFacts
    <3>5. Sleep!BedsOf(sleeper', p) = {}
      BY <1>5, <3>4
    <3>6. QED
      BY <3>2, <3>5 DEF SleepAgrees
  <2>3. CASE Sleep!BedsOf(sleeper, p) \cap hs = {}
    <3>1. \A h \in hs : sleeper[h] # p
      BY <2>3 DEF Sleep!BedsOf
    <3>2. bedSleepersMap'[p] = bedSleepersMap[p]
      BY <1>3, <3>1
    <3>3. \A h \in Sleep!BedsOf(sleeper, p), k \in hs : h \notin Sleep!Both(k)
      BY <1>1, <3>1, BothFacts DEF Sleep!BedsOf
    <3>4. Sleep!BedsOf(sleeper', p) = Sleep!BedsOf(sleeper, p)
      BY <1>5, <3>3
    <3>5. QED
      BY <2>1, <2>3, <3>2, <3>4 DEF SleepAgrees
  <2>4. QED
    BY <2>2, <2>3
<1>7. QED
  BY <1>2, <1>3, <1>4, <1>5, <1>6

(* sleep in a bed that is free. *)
LEMMA LiesDown ==
  ASSUME BedsIInv, NEW p \in Players, NEW h \in Halves, Sleep!Free(h), Sleep!Sleep(p, h),
         UNCHANGED <<awake, saved>>
  PROVE  /\ sleeper' \in [Halves -> Players \cup {Nobody}]
         /\ bedSleepersMap' \in [Players -> Halves \cup {NoBed}]
         /\ kicks' \subseteq Players /\ hasty' \subseteq Players
         /\ Paired(sleeper')
         /\ \A q \in Players \ hasty' :
              /\ q \notin hasty
              /\ SleepAgrees(q)'
              /\ q \in awake' \ kicks' => Sleep!BedsOf(sleeper', q) = {}
<1>1. /\ sleeper \in [Halves -> Players \cup {Nobody}]
      /\ bedSleepersMap \in [Players -> Halves \cup {NoBed}]
      /\ Paired(sleeper) /\ kicks \subseteq Players /\ hasty \subseteq Players
  BY DEF BedsIInv, Sleep!TypeOK
<1>2. /\ sleeper' \in [Halves -> Players \cup {Nobody}]
      /\ \A k \in Halves : sleeper'[k] = IF k \in Sleep!Both(h) THEN p ELSE sleeper[k]
      /\ bedSleepersMap' \in [Players -> Halves \cup {NoBed}]
      /\ bedSleepersMap'[p] = h
      /\ \A q \in Players \ {p} : bedSleepersMap'[q] = bedSleepersMap[q]
      /\ kicks' = kicks \cup {p}
      /\ hasty' = hasty \cup {q \in {p} : Sleep!BedsOf(sleeper, p) # {}}
  BY <1>1 DEF Sleep!Sleep
<1>3. Paired(sleeper')
  <2>1. ASSUME NEW k \in Halves PROVE sleeper'[k] = sleeper'[Partner[k]]
    <3>1. /\ Partner[k] \in Halves /\ sleeper[k] = sleeper[Partner[k]]
          /\ k \in Sleep!Both(h) <=> Partner[k] \in Sleep!Both(h)
      BY <1>1, BedsAssumption DEF Paired, Sleep!Both
    <3>2. QED
      BY <1>2, <3>1
  <2>2. QED
    BY <2>1 DEF Paired
<1>4. \A k \in Sleep!Both(h) : k \in Halves /\ sleeper[k] = Nobody
  BY <1>1, BothFacts DEF Sleep!Free
<1>5. ASSUME NEW q \in Players \ hasty', q # p
      PROVE  /\ SleepAgrees(q)'
             /\ q \in awake' \ kicks' => Sleep!BedsOf(sleeper', q) = {}
  <2>1. Sleep!BedsOf(sleeper', q) = Sleep!BedsOf(sleeper, q)
    BY <1>2, <1>4, <1>5, BedsAssumption DEF Sleep!BedsOf
  <2>2. SleepAgrees(q) /\ (q \in awake \ kicks => Sleep!BedsOf(sleeper, q) = {})
    BY <1>2 DEF BedsIInv
  <2>3. QED
    BY <1>2, <1>5, <2>1, <2>2 DEF SleepAgrees
<1>6. ASSUME p \notin hasty' PROVE SleepAgrees(p)' /\ p \in kicks'
  <2>1. Sleep!BedsOf(sleeper, p) = {}
    BY <1>2, <1>6
  <2>2. Sleep!BedsOf(sleeper', p) = Sleep!Both(h)
    BY <1>2, <1>4, <2>1, BothFacts DEF Sleep!BedsOf
  <2>3. h \in Sleep!Both(h) /\ h # NoBed
    BY BedsAssumption DEF Sleep!Both
  <2>4. QED
    BY <1>2, <2>2, <2>3 DEF SleepAgrees
<1>7. QED
  BY <1>1, <1>2, <1>3, <1>5, <1>6

LEMMA BedsStep ==
  ASSUME BedsIInv, [Sleep!Next]_(Sleep!vars)
  PROVE  BedsIInv'
<1>0. Sleep!TypeOK /\ Paired(sleeper) /\ Paired(saved)
  BY DEF BedsIInv
<1>1. ASSUME NEW p \in Players, NEW h \in Halves, Sleep!UseBed(p, h) PROVE BedsIInv'
  <2>1. CASE Sleep!Free(h)
    <3>1. Sleep!TypeOK'
      BY <1>0, <1>1, <2>1 DEF Sleep!UseBed, Sleep!TypeOK
    <3>2. UNCHANGED <<awake, sleeper, saved, bedSleepersMap, kicks, hasty>>
      BY <1>1, <2>1 DEF Sleep!UseBed
    <3>3. QED
      BY <3>1, <3>2 DEF BedsIInv, SleepAgrees, Paired
  <2>2. CASE ~Sleep!Free(h)
    <3>1. Sleep!WakeUp({h}) /\ UNCHANGED <<awake, owner, kicks, saved, hasty, bedItem, asked>>
      BY <1>1, <2>2 DEF Sleep!UseBed
    <3>2. /\ sleeper' \in [Halves -> Players \cup {Nobody}]
          /\ bedSleepersMap' \in [Players -> Halves \cup {NoBed}]
          /\ Paired(sleeper')
          /\ \A q \in Players :
               /\ Sleep!BedsOf(sleeper', q) \subseteq Sleep!BedsOf(sleeper, q)
               /\ q \notin hasty => SleepAgrees(q)'
      BY <3>1, BedsWoken
    <3>3. Sleep!TypeOK'
      BY <1>0, <3>1, <3>2 DEF Sleep!TypeOK
    <3>4. QED
      BY <3>1, <3>2, <3>3 DEF BedsIInv, Paired
  <2>3. QED
    BY <2>1, <2>2
<1>2. ASSUME NEW p \in Players, Sleep!Accept(p) PROVE BedsIInv'
  <2>1. CASE bedItem[p] # NoBed /\ Sleep!Free(bedItem[p])
    <3>1. /\ Sleep!Sleep(p, bedItem[p])
          /\ UNCHANGED <<awake, saved, owner, bedItem>> /\ asked' = asked \ {p}
      BY <1>2, <2>1 DEF Sleep!Accept
    <3>2. bedItem[p] \in Halves
      BY <1>0, <2>1 DEF Sleep!TypeOK
    <3>3. /\ sleeper' \in [Halves -> Players \cup {Nobody}]
          /\ bedSleepersMap' \in [Players -> Halves \cup {NoBed}]
          /\ kicks' \subseteq Players /\ hasty' \subseteq Players
          /\ Paired(sleeper')
          /\ \A q \in Players \ hasty' :
               /\ q \notin hasty
               /\ SleepAgrees(q)'
               /\ q \in awake' \ kicks' => Sleep!BedsOf(sleeper', q) = {}
      BY <2>1, <3>1, <3>2, LiesDown
    <3>4. Sleep!TypeOK'
      BY <1>0, <3>1, <3>3 DEF Sleep!TypeOK
    <3>5. QED
      BY <3>1, <3>3, <3>4 DEF BedsIInv, Paired
  <2>2. CASE ~(bedItem[p] # NoBed /\ Sleep!Free(bedItem[p]))
    <3>1. UNCHANGED <<awake, owner, sleeper, saved, bedSleepersMap, kicks, hasty>>
      BY <1>2, <2>2 DEF Sleep!Accept
    <3>2. Sleep!TypeOK'
      BY <1>0, <1>2, <2>2, <3>1 DEF Sleep!Accept, Sleep!TypeOK
    <3>3. QED
      BY <3>1, <3>2 DEF BedsIInv, SleepAgrees, Paired
  <2>3. QED
    BY <2>1, <2>2
<1>3. ASSUME NEW p \in Players, Sleep!Decline(p) \/ Sleep!Connect(p) PROVE BedsIInv'
  <2>1. UNCHANGED <<awake, owner, sleeper, saved, bedSleepersMap, kicks, hasty>>
    BY <1>3 DEF Sleep!Decline, Sleep!Connect
  <2>2. Sleep!TypeOK'
    BY <1>0, <1>3, <2>1 DEF Sleep!Decline, Sleep!Connect, Sleep!TypeOK
  <2>3. QED
    BY <2>1, <2>2 DEF BedsIInv, SleepAgrees, Paired
<1>4. ASSUME NEW p \in Players, Sleep!Login(p) PROVE BedsIInv'
  <2>1. /\ Sleep!WakeUp(Sleep!Waking(p)) /\ awake' = awake \cup {p}
        /\ UNCHANGED <<owner, kicks, saved, hasty, bedItem, asked>>
    BY <1>4 DEF Sleep!Login
  <2>2. Sleep!Waking(p) \in SUBSET Halves
    BY DEF Sleep!Waking
  <2>3. /\ sleeper' \in [Halves -> Players \cup {Nobody}]
        /\ bedSleepersMap' \in [Players -> Halves \cup {NoBed}]
        /\ Paired(sleeper')
        /\ \A q \in Players :
             /\ Sleep!BedsOf(sleeper', q) \subseteq Sleep!BedsOf(sleeper, q)
             /\ q \notin hasty => SleepAgrees(q)'
             /\ q \notin hasty /\ Sleep!BedsOf(sleeper, q) \cap Sleep!Waking(p) # {} =>
                  Sleep!BedsOf(sleeper', q) = {}
    BY <2>1, <2>2, BedsWoken
  <2>4. Sleep!TypeOK'
    BY <1>0, <2>1, <2>3 DEF Sleep!TypeOK
  <2>5. ASSUME p \notin hasty PROVE Sleep!BedsOf(sleeper', p) = {}
    <3>1. CASE Sleep!BedsOf(sleeper, p) = {}
      BY <2>3, <3>1
    <3>2. CASE Sleep!BedsOf(sleeper, p) # {}
      <4>1. /\ bedSleepersMap[p] \in Halves
            /\ Sleep!BedsOf(sleeper, p) = Sleep!Both(bedSleepersMap[p])
        BY <1>0, <2>5, <3>2 DEF BedsIInv, SleepAgrees, Sleep!TypeOK
      <4>2. bedSleepersMap[p] \in Sleep!BedsOf(sleeper, p) \cap Sleep!Waking(p)
        BY <4>1 DEF Sleep!Both, Sleep!Waking
      <4>3. QED
        BY <2>3, <2>5, <4>2
    <3>3. QED
      BY <3>1, <3>2
  <2>6. \A q \in Players \ hasty : q \in awake' \ kicks' => Sleep!BedsOf(sleeper', q) = {}
    BY <2>1, <2>3, <2>5 DEF BedsIInv
  <2>7. QED
    BY <2>1, <2>3, <2>4, <2>6 DEF BedsIInv, Paired
<1>5. ASSUME NEW p \in Players, Sleep!Logout(p) PROVE BedsIInv'
  <2>1. /\ UNCHANGED <<owner, sleeper, saved, bedSleepersMap, hasty>>
        /\ awake' \ kicks' \subseteq awake \ kicks
    BY <1>5 DEF Sleep!Logout
  <2>2. Sleep!TypeOK'
    BY <1>0, <1>5, <2>1 DEF Sleep!Logout, Sleep!TypeOK
  <2>3. QED
    BY <2>1, <2>2 DEF BedsIInv, SleepAgrees, Paired
<1>6. ASSUME NEW q \in Owners \cup {Nobody}, Sleep!SetOwner(q) PROVE BedsIInv'
  <2> DEFINE hs == IF owner = Nobody THEN {} ELSE {h \in Halves : ~Sleep!Free(h)}
  <2>1. /\ Sleep!WakeUp(hs) /\ owner' = q
        /\ UNCHANGED <<awake, bedItem, asked, kicks, saved, hasty>>
    BY <1>6 DEF Sleep!SetOwner
  <2>2. hs \in SUBSET Halves
    OBVIOUS
  <2> HIDE DEF hs
  <2>3. /\ sleeper' \in [Halves -> Players \cup {Nobody}]
        /\ bedSleepersMap' \in [Players -> Halves \cup {NoBed}]
        /\ Paired(sleeper')
        /\ \A p \in Players :
             /\ Sleep!BedsOf(sleeper', p) \subseteq Sleep!BedsOf(sleeper, p)
             /\ p \notin hasty => SleepAgrees(p)'
    BY <2>1, <2>2, BedsWoken
  <2>4. Sleep!TypeOK'
    BY <1>0, <2>1, <2>3 DEF Sleep!TypeOK
  <2>5. QED
    BY <2>1, <2>3, <2>4 DEF BedsIInv, Paired
<1>7. CASE Sleep!Save
  <2>1. /\ saved' = sleeper
        /\ UNCHANGED <<awake, owner, sleeper, bedSleepersMap, bedItem, asked, kicks, hasty>>
    BY <1>7 DEF Sleep!Save
  <2>2. Sleep!TypeOK'
    BY <1>0, <2>1 DEF Sleep!TypeOK
  <2>3. ASSUME NEW p \in Players \ hasty, Sleep!BedsOf(sleeper, p) # {}
        PROVE  \E h \in Halves : Sleep!BedsOf(sleeper, p) = Sleep!Both(h)
    BY <1>0, <2>3 DEF BedsIInv, SleepAgrees, Sleep!TypeOK
  <2>4. QED
    BY <2>1, <2>2, <2>3 DEF BedsIInv, SleepAgrees, Paired
<1>8. CASE Sleep!Restart
  <2>1. /\ awake' = {} /\ asked' = {} /\ kicks' = {} /\ sleeper' = saved
        /\ UNCHANGED <<owner, saved, hasty>>
        /\ bedSleepersMap' \in [Players -> {NoBed} \cup {h \in Halves : saved[h] # Nobody}]
        /\ \A p \in Players :
             IF Sleep!BedsOf(saved, p) = {} THEN bedSleepersMap'[p] = NoBed
             ELSE bedSleepersMap'[p] \in Sleep!BedsOf(saved, p)
        /\ bedItem' = [p \in Players |-> NoBed]
    BY <1>8 DEF Sleep!Restart
  <2>2. bedSleepersMap' \in [Players -> Halves \cup {NoBed}]
    BY <2>1
  <2>3. Sleep!TypeOK'
    BY <1>0, <2>1, <2>2 DEF Sleep!TypeOK
  <2>4. ASSUME NEW p \in Players \ hasty PROVE SleepAgrees(p)'
    <3>1. CASE Sleep!BedsOf(saved, p) = {}
      BY <2>1, <3>1 DEF SleepAgrees
    <3>2. CASE Sleep!BedsOf(saved, p) # {}
      <4>1. PICK h \in Halves : Sleep!BedsOf(saved, p) = Sleep!Both(h)
        BY <3>2 DEF BedsIInv
      <4>2. bedSleepersMap'[p] \in Sleep!Both(h)
        BY <2>1, <3>2, <4>1
      <4>3. Sleep!Both(bedSleepersMap'[p]) = Sleep!Both(h) /\ bedSleepersMap'[p] # NoBed
        BY <4>2, BothFacts, BedsAssumption
      <4>4. QED
        BY <2>1, <3>2, <4>1, <4>3 DEF SleepAgrees
    <3>3. QED
      BY <3>1, <3>2
  <2>5. QED
    BY <1>0, <2>1, <2>3, <2>4 DEF BedsIInv, Paired
<1>9. CASE UNCHANGED Sleep!vars
  BY <1>9 DEF Sleep!vars, BedsIInv, Sleep!TypeOK, Paired, SleepAgrees
<1>10. QED
  BY <1>1, <1>2, <1>3, <1>4, <1>5, <1>6, <1>7, <1>8, <1>9 DEF Sleep!Next

-----------------------------------------------------------------------------
(* Shops of NPCs.  The two sides of the windows, what their callbacks hold,  *)
(* and what an NPC believes to see; nobody who is away is near an NPC.       *)
BothSides ==
  \A p \in Buyers, n \in Npcs :
    /\ shopOwner[p] = n <=> p \in shopPlayerSet[n]
    /\ shopOwner[p] = n => {p, n} \subseteq world

Held == \A n \in Npcs : callbacks[n] = Cardinality(shopPlayerSet[n])

Watched ==
  \A n \in Npcs :
    /\ near[n] \subseteq world
    /\ inSight[n] \ unsure[n] \subseteq spectators[n]
    /\ spectators[n] \ unsure[n] \subseteq near[n]
    /\ n \notin reloaded => (isIdle[n] <=> spectators[n] = {})

ShopsTyped ==
  /\ shopOwner \in [Buyers -> Npcs \cup {NoNpc}]
  /\ shopPlayerSet \in [Npcs -> SUBSET Buyers]
  /\ callbacks \in [Npcs -> Nat]

SightTyped ==
  /\ clients \subseteq Buyers
  /\ near \in [Npcs -> SUBSET Buyers]
  /\ inSight \in [Npcs -> SUBSET Buyers]
  /\ spectators \in [Npcs -> SUBSET Buyers]
  /\ isIdle \in [Npcs -> BOOLEAN]
  /\ unsure \in [Npcs -> SUBSET Buyers]
  /\ reloaded \subseteq Npcs

NpcsIInv ==
  /\ world \subseteq Buyers \cup Npcs /\ ShopsTyped /\ SightTyped
  /\ BothSides /\ Held /\ Watched

LEMMA NpcsInitially == Shops!Init => NpcsIInv
<1> SUFFICES ASSUME Shops!Init PROVE NpcsIInv
  OBVIOUS
<1> USE NpcsAssumption DEF Shops!Init
<1>1. world \subseteq Buyers \cup Npcs /\ ShopsTyped /\ SightTyped
  BY DEF ShopsTyped, SightTyped
<1>2. BothSides /\ Watched
  BY DEF BothSides, Watched
<1>3. Held
  BY FS_EmptySet DEF Held
<1>4. QED
  BY <1>1, <1>2, <1>3 DEF NpcsIInv

LEMMA SameNumber == \A S : Shops!Cardinality(S) = Cardinality(S)
<1>1. \A S : Shops!IsFiniteSet(S) <=> IsFiniteSet(S)
  BY DEF Shops!IsFiniteSet, IsFiniteSet
<1>2. QED
  BY <1>1 DEF Shops!Cardinality, Cardinality

(* What Player::closeShopWindow of some players, and then openShopWindow,    *)
(* leave of the windows: those of the others are as they were.               *)
LEMMA WindowsKept ==
  ASSUME NpcsIInv, NEW p \in Buyers, NEW n \in Npcs \cup {NoNpc}, NEW ps \in SUBSET Buyers,
         n \in Npcs => p \in ps, Shops!Windows(ps, p, n)
  PROVE  /\ ShopsTyped' /\ Held'
         /\ \A q \in Buyers : shopOwner'[q] = IF q = p /\ n \in Npcs THEN n
                                 ELSE IF q \in ps THEN NoNpc ELSE shopOwner[q]
         /\ \A q \in Buyers, m \in Npcs : shopOwner'[q] = m <=> q \in shopPlayerSet'[m]
<1> USE NpcsAssumption
<1>1. ShopsTyped /\ BothSides /\ Held
  BY DEF NpcsIInv
<1>2. /\ shopOwner' \in [Buyers -> Npcs \cup {NoNpc}]
      /\ shopPlayerSet' \in [Npcs -> SUBSET Buyers]
      /\ \A q \in Buyers : shopOwner'[q] = IF q = p /\ n \in Npcs THEN n
                              ELSE IF q \in ps THEN NoNpc ELSE shopOwner[q]
      /\ \A m \in Npcs : shopPlayerSet'[m] =
           (shopPlayerSet[m] \ {q \in ps : shopOwner[q] = m}) \cup {q \in {p} : m = n}
  BY <1>1 DEF Shops!Windows, ShopsTyped
<1>3. ASSUME NEW q \in Buyers, NEW m \in Npcs
      PROVE  shopOwner'[q] = m <=> q \in shopPlayerSet'[m]
  BY <1>1, <1>2 DEF BothSides
<1>4. ASSUME NEW m \in Npcs
      PROVE  /\ callbacks'[m] = Cardinality(shopPlayerSet'[m])
             /\ callbacks'[m] \in Nat
  <2> DEFINE R == {q \in ps : shopOwner[q] = m}
             S == shopPlayerSet[m]
  <2>1. /\ R \subseteq S /\ S \subseteq Buyers
        /\ callbacks[m] = Cardinality(S)
        /\ callbacks'[m] = (callbacks[m] - Cardinality(R)) + (IF m = n THEN 1 ELSE 0)
        /\ shopPlayerSet'[m] = (S \ R) \cup {q \in {p} : m = n}
        /\ m = n => p \notin S \ R
    BY <1>1, <1>2, SameNumber DEF Shops!Windows, Shops!Released, BothSides, Held, ShopsTyped
  <2> HIDE DEF R, S
  <2>2. /\ IsFiniteSet(S) /\ IsFiniteSet(R) /\ IsFiniteSet(S \ R)
        /\ Cardinality(S) \in Nat /\ Cardinality(R) \in Nat /\ Cardinality(S \ R) \in Nat
    BY <2>1, FS_Subset, FS_CardinalityType
  <2>3. Cardinality(S \ R) = Cardinality(S) - Cardinality(R)
    <3>1. /\ S \cap R = R
          /\ Cardinality(S \ R) = Cardinality(S) - Cardinality(S \cap R)
      BY <2>1, <2>2, FS_Difference
    <3>2. QED
      BY <3>1
  <2>4. CASE m = n
    <3>1. {q \in {p} : m = n} = {p}
      BY <2>4
    <3>2. shopPlayerSet'[m] = (S \ R) \cup {p}
      BY <2>1, <3>1
    <3>3. Cardinality((S \ R) \cup {p}) = Cardinality(S \ R) + 1
      BY <2>1, <2>2, <2>4, FS_AddElement
    <3>4. callbacks'[m] = (Cardinality(S) - Cardinality(R)) + 1
      BY <2>1, <2>4
    <3>5. callbacks'[m] = Cardinality(S \ R) + 1
      BY <2>3, <3>4
    <3>6. QED
      BY <2>2, <3>2, <3>3, <3>5
  <2>5. CASE m # n
    <3>1. shopPlayerSet'[m] = S \ R
      BY <2>1, <2>5
    <3>2. callbacks'[m] = (Cardinality(S) - Cardinality(R)) + 0
      BY <2>1, <2>5
    <3>3. callbacks'[m] = Cardinality(S \ R)
      BY <2>2, <2>3, <3>2
    <3>4. QED
      BY <2>2, <3>1, <3>3
  <2>6. QED
    BY <2>4, <2>5
<1>5. callbacks' \in [Npcs -> Nat]
  <2>1. callbacks' = [m \in Npcs |-> callbacks'[m]]
    BY DEF Shops!Windows
  <2>2. QED
    BY <1>4, <2>1
<1>6. QED
  BY <1>2, <1>3, <1>4, <1>5 DEF ShopsTyped, Held

LEMMA WindowsClosed ==
  ASSUME NpcsIInv, NEW ps \in SUBSET Buyers, Shops!Closed(ps)
  PROVE  /\ ShopsTyped' /\ Held'
         /\ \A q \in Buyers : shopOwner'[q] = IF q \in ps THEN NoNpc ELSE shopOwner[q]
         /\ \A q \in Buyers, m \in Npcs : shopOwner'[q] = m <=> q \in shopPlayerSet'[m]
<1>1. PICK p \in Buyers : Shops!Windows(ps, p, NoNpc)
  BY DEF Shops!Closed
<1>2. QED
  BY <1>1, WindowsKept, NpcsAssumption

(* Nothing about what an NPC sees has changed. *)
LEMMA SightKept ==
  ASSUME NpcsIInv, UNCHANGED <<world, Shops!sight>>
  PROVE  SightTyped' /\ Watched'
BY DEF NpcsIInv, SightTyped, Watched, Shops!sight

LEMMA NpcsStep ==
  ASSUME NpcsIInv, [Shops!Next]_(Shops!vars)
  PROVE  NpcsIInv'
<1> USE NpcsAssumption
<1>0. /\ world \subseteq Buyers \cup Npcs /\ ShopsTyped /\ SightTyped
      /\ BothSides /\ Held /\ Watched
  BY DEF NpcsIInv
<1>1. ASSUME NEW p \in Buyers, NEW n \in Npcs, Shops!OpenShopWindow(p, n) PROVE NpcsIInv'
  <2>1. /\ p \in world /\ n \in world /\ Shops!Windows({p}, p, n)
        /\ UNCHANGED <<world, Shops!sight>>
    BY <1>1 DEF Shops!OpenShopWindow, Shops!Previous
  <2>2. /\ ShopsTyped' /\ Held'
        /\ \A q \in Buyers : shopOwner'[q] = IF q = p THEN n ELSE shopOwner[q]
        /\ \A q \in Buyers, m \in Npcs : shopOwner'[q] = m <=> q \in shopPlayerSet'[m]
    <3>1. {p} \in SUBSET Buyers /\ p \in {p}
      OBVIOUS
    <3>2. QED
      BY <2>1, <3>1, WindowsKept
  <2>3. BothSides'
    BY <1>0, <2>1, <2>2 DEF BothSides
  <2>4. QED
    BY <1>0, <2>1, <2>2, <2>3, SightKept DEF NpcsIInv
<1>2. ASSUME NEW p \in Buyers, Shops!CloseShopWindow(p) PROVE NpcsIInv'
  <2>1. Shops!Closed({p}) /\ UNCHANGED <<world, Shops!sight>>
    BY <1>2 DEF Shops!CloseShopWindow
  <2>2. /\ ShopsTyped' /\ Held'
        /\ \A q \in Buyers : shopOwner'[q] = IF q \in {p} THEN NoNpc ELSE shopOwner[q]
        /\ \A q \in Buyers, m \in Npcs : shopOwner'[q] = m <=> q \in shopPlayerSet'[m]
    <3>1. {p} \in SUBSET Buyers
      OBVIOUS
    <3>2. QED
      BY <2>1, <3>1, WindowsClosed
  <2>3. BothSides'
    BY <1>0, <2>1, <2>2 DEF BothSides
  <2>4. QED
    BY <1>0, <2>1, <2>2, <2>3, SightKept DEF NpcsIInv
<1>3. ASSUME NEW p \in Buyers, NEW ns \in SUBSET (world \cap Npcs), NEW seen \in SUBSET ns,
             Shops!Appear(p, ns, seen)
      PROVE  NpcsIInv'
  <2>1. /\ p \notin world /\ world' = world \cup {p} /\ clients' = clients \cup {p}
        /\ Shops!Placed(p, ns, seen) /\ Shops!Believed(p, ns, ns, {}) /\ UNCHANGED Shops!shop
    BY <1>3 DEF Shops!Appear
  <2>2. SightTyped'
    BY <1>0, <2>1 DEF SightTyped, Shops!Placed, Shops!Believed, Shops!With
  <2>3. ASSUME NEW n \in Npcs
        PROVE  /\ near'[n] = (IF n \in ns THEN near[n] \cup {p} ELSE near[n] \ {p})
               /\ inSight'[n] = (IF n \in seen THEN inSight[n] \cup {p} ELSE inSight[n] \ {p})
               /\ spectators'[n] = (IF n \in ns THEN spectators[n] \cup {p} ELSE spectators[n])
               /\ unsure'[n] = (IF n \in ns THEN unsure[n] \ {p} ELSE unsure[n])
               /\ isIdle'[n] <=> (IF n \in ns THEN spectators'[n] = {} ELSE isIdle[n])
               /\ n \in reloaded' <=> n \in reloaded /\ n \notin ns
    BY <1>0, <2>1 DEF SightTyped, Shops!Placed, Shops!Believed, Shops!With
  <2>4. Watched'
    BY <1>0, <2>1, <2>3 DEF Watched
  <2>5. BothSides' /\ ShopsTyped' /\ Held'
    BY <1>0, <2>1 DEF BothSides, ShopsTyped, Held, Shops!shop
  <2>6. QED
    BY <1>0, <2>1, <2>2, <2>4, <2>5 DEF NpcsIInv
<1>4. ASSUME NEW p \in Buyers, Shops!RemovePlayer(p) PROVE NpcsIInv'
  <2>1. /\ p \in world /\ world' = world \ {p} /\ Shops!Closed({p}) /\ clients' = clients \ {p}
        /\ Shops!Placed(p, {}, {}) /\ Shops!Believed(p, Shops!Told(p, {}), {}, {})
    BY <1>4 DEF Shops!RemovePlayer
  <2>2. SightTyped'
    BY <1>0, <2>1 DEF SightTyped, Shops!Placed, Shops!Believed, Shops!With
  <2>3. ASSUME NEW n \in Npcs
        PROVE  /\ near'[n] = near[n] \ {p}
               /\ inSight'[n] = inSight[n] \ {p}
               /\ spectators'[n] = (IF p \in near[n] THEN spectators[n] \ {p} ELSE spectators[n])
               /\ unsure'[n] = (IF p \in near[n] THEN unsure[n] \ {p} ELSE unsure[n])
               /\ isIdle'[n] <=> (IF p \in near[n] THEN spectators'[n] = {} ELSE isIdle[n])
               /\ n \in reloaded' <=> n \in reloaded /\ p \notin near[n]
    BY <1>0, <2>1 DEF SightTyped, Shops!Placed, Shops!Believed, Shops!With, Shops!Told
  <2>4. Watched'
    BY <1>0, <2>1, <2>3 DEF Watched
  <2>5. /\ ShopsTyped' /\ Held'
        /\ \A q \in Buyers : shopOwner'[q] = IF q \in {p} THEN NoNpc ELSE shopOwner[q]
        /\ \A q \in Buyers, m \in Npcs : shopOwner'[q] = m <=> q \in shopPlayerSet'[m]
    <3>1. {p} \in SUBSET Buyers
      OBVIOUS
    <3>2. QED
      BY <2>1, <3>1, WindowsClosed
  <2>6. BothSides'
    BY <1>0, <2>1, <2>5 DEF BothSides
  <2>7. QED
    BY <1>0, <2>1, <2>2, <2>4, <2>5, <2>6 DEF NpcsIInv
<1>5. ASSUME NEW p \in Buyers, NEW ns \in SUBSET (world \cap Npcs), NEW seen \in SUBSET ns,
             Shops!MovePlayer(p, ns, seen)
      PROVE  NpcsIInv'
  <2>1. /\ p \in world /\ UNCHANGED <<world, Shops!shop, clients>>
        /\ Shops!Placed(p, ns, seen)
        /\ Shops!Believed(p, Shops!Told(p, ns), Shops!CanSee(p, seen), seen \ Shops!CanSee(p, seen))
    BY <1>5 DEF Shops!MovePlayer
  <2>2. SightTyped'
    BY <1>0, <2>1 DEF SightTyped, Shops!Placed, Shops!Believed, Shops!With, Shops!CanSee
  <2>3. ASSUME NEW n \in Npcs
        PROVE  /\ near'[n] = (IF n \in ns THEN near[n] \cup {p} ELSE near[n] \ {p})
               /\ inSight'[n] = (IF n \in seen THEN inSight[n] \cup {p} ELSE inSight[n] \ {p})
               /\ n \in ns \/ p \in near[n] =>
                    /\ spectators'[n] = (IF n \in seen /\ p \in clients
                                         THEN spectators[n] \cup {p} ELSE spectators[n] \ {p})
                    /\ unsure'[n] = (IF n \in seen /\ p \notin clients
                                     THEN unsure[n] \cup {p} ELSE unsure[n] \ {p})
                    /\ isIdle'[n] <=> spectators'[n] = {}
               /\ ~(n \in ns \/ p \in near[n]) =>
                    /\ spectators'[n] = spectators[n] /\ unsure'[n] = unsure[n]
                    /\ (isIdle'[n] <=> isIdle[n]) /\ (n \in reloaded' <=> n \in reloaded)
    BY <1>0, <2>1 DEF SightTyped, Shops!Placed, Shops!Believed, Shops!With, Shops!Told,
       Shops!CanSee
  <2>4. Watched'
    BY <1>0, <2>1, <2>3 DEF Watched
  <2>5. BothSides' /\ ShopsTyped' /\ Held'
    BY <1>0, <2>1 DEF BothSides, ShopsTyped, Held, Shops!shop
  <2>6. QED
    BY <1>0, <2>1, <2>2, <2>4, <2>5 DEF NpcsIInv
<1>6. ASSUME NEW n \in Npcs, NEW ps \in SUBSET Buyers, NEW seeing \in SUBSET ps,
             Shops!Arrive(n, ps, seeing)
      PROVE  NpcsIInv'
  <2>1. /\ ps \subseteq world /\ world' = world \cup {n}
        /\ near' = [near EXCEPT ![n] = ps] /\ inSight' = [inSight EXCEPT ![n] = seeing]
        /\ unsure' = [unsure EXCEPT ![n] = @ \cup ps \cup near[n]]
        /\ UNCHANGED <<Shops!shop, clients, spectators, isIdle, reloaded>>
    BY <1>6 DEF Shops!Arrive
  <2>2. SightTyped'
    BY <1>0, <2>1 DEF SightTyped
  <2>3. ASSUME NEW m \in Npcs
        PROVE  /\ near'[m] = (IF m = n THEN ps ELSE near[m])
               /\ inSight'[m] = (IF m = n THEN seeing ELSE inSight[m])
               /\ unsure'[m] = (IF m = n THEN unsure[m] \cup ps \cup near[m] ELSE unsure[m])
    BY <1>0, <2>1 DEF SightTyped
  <2>4. Watched'
    BY <1>0, <2>1, <2>3 DEF Watched
  <2>5. BothSides' /\ ShopsTyped' /\ Held'
    BY <1>0, <2>1 DEF BothSides, ShopsTyped, Held, Shops!shop
  <2>6. QED
    BY <1>0, <2>1, <2>2, <2>4, <2>5 DEF NpcsIInv
<1>7. ASSUME NEW n \in Npcs, Shops!RemoveNpc(n) PROVE NpcsIInv'
  <2>1. /\ n \in world /\ world' = world \ {n} /\ Shops!Closed(shopPlayerSet[n])
        /\ near' = [near EXCEPT ![n] = {}] /\ inSight' = [inSight EXCEPT ![n] = {}]
        /\ spectators' = [spectators EXCEPT ![n] = {}]
        /\ isIdle' = [isIdle EXCEPT ![n] = TRUE]
        /\ unsure' = [unsure EXCEPT ![n] = {}] /\ reloaded' = reloaded \ {n}
        /\ UNCHANGED clients
    BY <1>7 DEF Shops!RemoveNpc, Shops!Customers
  <2>2. SightTyped'
    BY <1>0, <2>1 DEF SightTyped
  <2>3. ASSUME NEW m \in Npcs
        PROVE  /\ near'[m] = (IF m = n THEN {} ELSE near[m])
               /\ inSight'[m] = (IF m = n THEN {} ELSE inSight[m])
               /\ spectators'[m] = (IF m = n THEN {} ELSE spectators[m])
               /\ isIdle'[m] <=> (IF m = n THEN TRUE ELSE isIdle[m])
               /\ unsure'[m] = (IF m = n THEN {} ELSE unsure[m])
    BY <1>0, <2>1 DEF SightTyped
  <2>4. Watched'
    <3>1. \A m \in Npcs : near[m] \subseteq world \cap Buyers
      BY <1>0 DEF Watched, SightTyped
    <3>2. QED
      BY <1>0, <2>1, <2>3, <3>1 DEF Watched
  <2>5. /\ ShopsTyped' /\ Held'
        /\ \A q \in Buyers : shopOwner'[q] = IF q \in shopPlayerSet[n] THEN NoNpc
                                              ELSE shopOwner[q]
        /\ \A q \in Buyers, m \in Npcs : shopOwner'[q] = m <=> q \in shopPlayerSet'[m]
    <3>1. shopPlayerSet[n] \in SUBSET Buyers
      BY <1>0 DEF ShopsTyped
    <3>2. QED
      BY <2>1, <3>1, WindowsClosed
  <2>6. BothSides'
    BY <1>0, <2>1, <2>5 DEF BothSides
  <2>7. QED
    BY <1>0, <2>1, <2>2, <2>4, <2>5, <2>6 DEF NpcsIInv
<1>8. CASE Shops!Reload
  <2> DEFINE ps == UNION {Shops!Customers(n) : n \in Npcs}
  <2>1. /\ Shops!Closed(ps) /\ isIdle' = [n \in Npcs |-> TRUE]
        /\ reloaded' = reloaded \cup {n \in Npcs : spectators[n] # {}}
        /\ UNCHANGED <<world, clients, near, inSight, spectators, unsure>>
    BY <1>8 DEF Shops!Reload
  <2>2. ps \in SUBSET Buyers
    BY <1>0 DEF ShopsTyped, Shops!Customers
  <2> HIDE DEF ps
  <2>3. SightTyped' /\ Watched'
    BY <1>0, <2>1 DEF SightTyped, Watched
  <2>4. /\ ShopsTyped' /\ Held'
        /\ \A q \in Buyers : shopOwner'[q] = IF q \in ps THEN NoNpc ELSE shopOwner[q]
        /\ \A q \in Buyers, m \in Npcs : shopOwner'[q] = m <=> q \in shopPlayerSet'[m]
    BY <2>1, <2>2, WindowsClosed
  <2>5. BothSides'
    BY <1>0, <2>1, <2>4 DEF BothSides
  <2>6. QED
    BY <1>0, <2>1, <2>3, <2>4, <2>5 DEF NpcsIInv
<1>9. CASE UNCHANGED Shops!vars
  <2>1. UNCHANGED <<world, Shops!shop, Shops!sight>>
    BY <1>9 DEF Shops!vars, Shops!shop, Shops!sight
  <2>2. SightTyped' /\ Watched'
    BY <2>1, SightKept
  <2>3. ShopsTyped' /\ BothSides' /\ Held'
    BY <1>0, <2>1 DEF ShopsTyped, BothSides, Held, Shops!shop
  <2>4. QED
    BY <1>0, <2>1, <2>2, <2>3 DEF NpcsIInv
<1>10. ASSUME NEW p \in Buyers, Shops!LoseClient(p) \/ Shops!Reconnect(p) PROVE NpcsIInv'
  <2>1. /\ clients' \subseteq Buyers
        /\ UNCHANGED <<world, Shops!shop, near, inSight, spectators, isIdle, unsure, reloaded>>
    BY <1>0, <1>10 DEF Shops!LoseClient, Shops!Reconnect, SightTyped
  <2>2. SightTyped' /\ Watched'
    BY <1>0, <2>1 DEF SightTyped, Watched
  <2>3. ShopsTyped' /\ BothSides' /\ Held'
    BY <1>0, <2>1 DEF ShopsTyped, BothSides, Held, Shops!shop
  <2>4. QED
    BY <1>0, <2>1, <2>2, <2>3 DEF NpcsIInv
<1>11. QED
  BY <1>1, <1>2, <1>3, <1>4, <1>5, <1>6, <1>7, <1>8, <1>9, <1>10 DEF Shops!Next

LEMMA NpcsKept == NpcsIInv => Shops!NpcsInv
BY SameNumber DEF NpcsIInv, ShopsTyped, SightTyped, BothSides, Held, Watched, Shops!TypeOK,
   Shops!NpcsInv

-----------------------------------------------------------------------------
(* Channels.  The members of the guilds, and the users of each kind of       *)
(* channel; a player owns one private channel at most.                       *)
Listed ==
  /\ chatting \subseteq Players /\ orphans \subseteq Players
  /\ guild \in [Players -> Guilds \cup {NoGuild}]
  /\ party \in [Players -> Addresses \cup {NoParty}]
  /\ membersOnline \in [Guilds -> SUBSET Players]
  /\ \A g \in Guilds, p \in Players \ orphans :
       p \in membersOnline[g] <=> p \in chatting /\ guild[p] = g

GuildsHeard == guildUsers \in [Guilds -> (SUBSET chatting) \cup {NoChannel}]

PartiesHeard == partyUsers \in [Addresses -> (SUBSET chatting) \cup {NoChannel}]

Private == [owner : Players, invites : SUBSET Players, users : SUBSET Players]

Sound(c) ==
  /\ c \in Private
  /\ c.users \cup c.invites \subseteq chatting
  /\ c.owner \in c.users /\ c.users \subseteq c.invites \cup {c.owner}

PrivatesHeard ==
  /\ privates \in [Numbers -> {NoChannel} \cup Private]
  /\ \A n \in Chat!Existing(privates) : Sound(privates[n])
  /\ \A m, n \in Chat!Existing(privates) : privates[m].owner = privates[n].owner => m = n

ChannelsIInv == Listed /\ GuildsHeard /\ PartiesHeard /\ PrivatesHeard

LEMMA ChannelsInitially == Chat!Init => ChannelsIInv
<1> SUFFICES ASSUME Chat!Init PROVE ChannelsIInv
  OBVIOUS
<1> USE ChannelsAssumption DEF Chat!Init
<1>1. Listed
  BY DEF Listed
<1>2. GuildsHeard /\ PartiesHeard
  BY DEF GuildsHeard, PartiesHeard
<1>3. PrivatesHeard
  BY DEF PrivatesHeard, Chat!Existing
<1>4. QED
  BY <1>1, <1>2, <1>3 DEF ChannelsIInv

(* One private channel is made, changed or closed. *)
LEMMA PrivateChanged ==
  ASSUME PrivatesHeard, UNCHANGED chatting, NEW n \in Numbers, NEW c,
         privates' = [privates EXCEPT ![n] = c],
         \/ c = NoChannel
         \/ /\ Sound(c)
            /\ \A m \in Chat!Existing(privates) \ {n} : privates[m].owner # c.owner
  PROVE  PrivatesHeard'
<1>1. privates' \in [Numbers -> {NoChannel} \cup Private]
  BY DEF PrivatesHeard, Sound
<1>2. /\ privates'[n] = c
      /\ \A m \in Numbers \ {n} : privates'[m] = privates[m]
  BY DEF PrivatesHeard
<1>3. ASSUME NEW m \in Chat!Existing(privates)' PROVE Sound(privates[m])'
  <2>1. m \in Numbers /\ privates'[m] # NoChannel
    BY DEF Chat!Existing
  <2>2. Sound(privates'[m])
    BY <1>2, <2>1 DEF PrivatesHeard, Chat!Existing
  <2>3. QED
    BY <2>2 DEF Sound
<1>4. ASSUME NEW l \in Chat!Existing(privates)', NEW m \in Chat!Existing(privates)',
             privates'[l].owner = privates'[m].owner
      PROVE  l = m
  BY <1>2, <1>4 DEF PrivatesHeard, Chat!Existing
<1>5. QED
  BY <1>1, <1>3, <1>4 DEF PrivatesHeard

(* A user is added to or struck from a private channel. *)
LEMMA PrivateUsers ==
  ASSUME PrivatesHeard, UNCHANGED chatting, NEW n \in Chat!Existing(privates),
         NEW us \in SUBSET chatting, NEW is \in SUBSET chatting, chatting \subseteq Players,
         privates[n].owner \in us, us \subseteq is \cup {privates[n].owner},
         privates' = [privates EXCEPT ![n] = [owner |-> privates[n].owner, invites |-> is,
                                              users |-> us]]
  PROVE  PrivatesHeard'
<1> DEFINE c == [owner |-> privates[n].owner, invites |-> is, users |-> us]
<1>1. n \in Numbers /\ privates[n] \in Private
  BY DEF PrivatesHeard, Chat!Existing, Sound
<1>2. Sound(c) /\ c.owner = privates[n].owner
  BY <1>1 DEF Sound, Private
<1>3. \A m \in Chat!Existing(privates) \ {n} : privates[m].owner # c.owner
  BY <1>2 DEF PrivatesHeard
<1> HIDE DEF c
<1>4. privates' = [privates EXCEPT ![n] = c]
  BY DEF c
<1>5. QED
  BY <1>1, <1>2, <1>3, <1>4, PrivateChanged

LEMMA PrivateFields ==
  ASSUME PrivatesHeard, NEW n \in Chat!Existing(privates)
  PROVE  /\ n \in Numbers /\ Sound(privates[n])
         /\ privates[n] = [owner |-> privates[n].owner, invites |-> privates[n].invites,
                           users |-> privates[n].users]
BY DEF PrivatesHeard, Sound, Chat!Existing, Private

LEMMA PrivateFieldsSet ==
  ASSUME NEW c \in Private, NEW us, NEW is
  PROVE  /\ [c EXCEPT !.users = us] = [owner |-> c.owner, invites |-> c.invites, users |-> us]
         /\ [c EXCEPT !.invites = is] = [owner |-> c.owner, invites |-> is, users |-> c.users]
         /\ [c EXCEPT !.users = us, !.invites = is]
              = [owner |-> c.owner, invites |-> is, users |-> us]
<1>1. /\ [c EXCEPT !.users = us] = [owner |-> c.owner, invites |-> c.invites, users |-> us]
      /\ [c EXCEPT !.invites = is] = [owner |-> c.owner, invites |-> is, users |-> c.users]
  BY DEF Private
<1> DEFINE d == [c EXCEPT !.users = us, !.invites = is]
<1>2. d \in [owner : Players, invites : {is}, users : {us}]
  BY DEF Private
<1>3. d.owner = c.owner /\ d.users = us /\ d.invites = is
  BY DEF Private
<1> HIDE DEF d
<1>4. d = [owner |-> d.owner, invites |-> d.invites, users |-> d.users]
  BY <1>2
<1>5. QED
  BY <1>1, <1>3, <1>4 DEF d

(* getPrivateChannel: the channel p owns. *)
LEMMA Own ==
  ASSUME PrivatesHeard, NEW p \in Players, Chat!OwnedBy(p) # {}
  PROVE  /\ Chat!Min(Chat!OwnedBy(p)) \in Chat!Existing(privates)
         /\ privates[Chat!Min(Chat!OwnedBy(p))].owner = p
<1>1. Chat!OwnedBy(p) \in SUBSET Nat
  BY NaturalNumbers DEF Chat!OwnedBy, Chat!Existing
<1>2. Chat!Min(Chat!OwnedBy(p)) \in Chat!OwnedBy(p)
  BY <1>1, FirstNumber
<1>3. QED
  BY <1>2 DEF Chat!OwnedBy

(* There is a number for one more channel: each owner has one, and p none.   *)
LEMMA FreeNumber ==
  ASSUME PrivatesHeard, NEW p \in Players, Chat!OwnedBy(p) = {}
  PROVE  Chat!Min(Numbers \ Chat!Existing(privates)) \in Numbers \ Chat!Existing(privates)
<1>1. Numbers # Chat!Existing(privates)
  <2> SUFFICES ASSUME Numbers = Chat!Existing(privates) PROVE FALSE
    OBVIOUS
  <2> DEFINE f == [n \in Numbers |-> privates[n].owner]
  <2>1. f \in [Numbers -> Players \ {p}]
    BY DEF Chat!OwnedBy, PrivatesHeard, Sound, Private
  <2>2. /\ IsFiniteSet(Players \ {p})
        /\ Cardinality(Players \ {p}) = Cardinality(Players) - 1
        /\ Cardinality(Players) \in Nat /\ Cardinality(Numbers) \in Nat
    BY ChannelsAssumption, FS_RemoveElement, FS_CardinalityType
  <2>3. Cardinality(Players \ {p}) < Cardinality(Numbers)
    BY <2>2, ChannelsAssumption
  <2> HIDE DEF f
  <2>4. \E m, n \in Numbers : m # n /\ f[m] = f[n]
    BY <2>1, <2>2, <2>3, ChannelsAssumption, FS_PigeonHole
  <2>5. QED
    BY <2>4 DEF f, PrivatesHeard
<1>2. Numbers \ Chat!Existing(privates) \in SUBSET Nat
  BY NaturalNumbers
<1>3. Numbers \ Chat!Existing(privates) # {}
  BY <1>1 DEF Chat!Existing
<1>4. QED
  BY <1>2, <1>3, FirstNumber

(* removeUserFromAllChannels of a player who goes or whose client changes.   *)
LEMMA RemovedFromAll ==
  ASSUME ChannelsIInv, NEW p \in chatting, NEW ofParties,
         ofParties \in [Addresses -> (SUBSET chatting) \cup {NoChannel}],
         Chat!RemoveFromAll(p, ofParties), chatting' \in {chatting, chatting \ {p}}
  PROVE  GuildsHeard' /\ PartiesHeard' /\ PrivatesHeard'
<1>1. GuildsHeard' /\ PartiesHeard'
  BY DEF ChannelsIInv, GuildsHeard, PartiesHeard, Chat!RemoveFromAll, Chat!Without
<1>2. \A n \in Numbers :
        privates'[n] = IF n \in Chat!OwnedBy(p) \/ privates[n] = NoChannel THEN NoChannel
                       ELSE Chat!Struck(privates[n], p)
  BY DEF Chat!RemoveFromAll
<1>3. ASSUME NEW n \in Numbers, privates'[n] # NoChannel
      PROVE  /\ n \in Chat!Existing(privates) /\ privates'[n].owner = privates[n].owner
             /\ Sound(privates[n])'
  <2>1. /\ n \in Chat!Existing(privates) /\ privates[n].owner # p
        /\ privates'[n] = [privates[n] EXCEPT !.users = @ \ {p}, !.invites = @ \ {p}]
    BY <1>2, <1>3 DEF Chat!Existing, Chat!OwnedBy, Chat!Struck
  <2>2. Sound(privates[n])
    BY <2>1 DEF ChannelsIInv, PrivatesHeard
  <2>3. /\ privates'[n].users = privates[n].users \ {p}
        /\ privates'[n].invites = privates[n].invites \ {p}
        /\ privates'[n].owner = privates[n].owner
        /\ privates'[n] \in Private
    BY <2>1, <2>2 DEF Sound, Private
  <2>4. QED
    BY <2>1, <2>2, <2>3 DEF Sound
<1>4. privates' \in [Numbers -> {NoChannel} \cup Private]
  <2>1. privates' = [n \in Numbers |-> privates'[n]]
    BY DEF Chat!RemoveFromAll
  <2>2. \A n \in Numbers : privates'[n] \in {NoChannel} \cup Private
    BY <1>3 DEF Sound
  <2>3. QED
    BY <2>1, <2>2
<1>5. \A m, n \in Chat!Existing(privates)' : privates'[m].owner = privates'[n].owner => m = n
  BY <1>3 DEF Chat!Existing, ChannelsIInv, PrivatesHeard
<1>6. \A n \in Chat!Existing(privates)' : Sound(privates[n])'
  BY <1>3 DEF Chat!Existing
<1>7. QED
  BY <1>1, <1>4, <1>5, <1>6 DEF PrivatesHeard

(* More players online: who listened still does. *)
LEMMA MoreOnline ==
  ASSUME ChannelsIInv, chatting \subseteq chatting', UNCHANGED Chat!channels
  PROVE  GuildsHeard' /\ PartiesHeard' /\ PrivatesHeard'
<1>1. GuildsHeard' /\ PartiesHeard'
  BY DEF ChannelsIInv, GuildsHeard, PartiesHeard, Chat!channels
<1>2. UNCHANGED privates
  BY DEF Chat!channels
<1>3. \A c : Sound(c) => Sound(c)'
  BY DEF Sound
<1>4. PrivatesHeard'
  BY <1>2, <1>3 DEF ChannelsIInv, PrivatesHeard, Chat!Existing
<1>5. QED
  BY <1>1, <1>4

LEMMA ChannelsStep ==
  ASSUME ChannelsIInv, [Chat!Next]_(Chat!vars)
  PROVE  ChannelsIInv'
<1> USE ChannelsAssumption
<1>0. /\ Listed /\ GuildsHeard /\ PartiesHeard /\ PrivatesHeard /\ chatting \subseteq Players
  BY DEF ChannelsIInv, Listed
<1>1. ASSUME UNCHANGED Chat!membership, GuildsHeard', PartiesHeard', PrivatesHeard'
             PROVE ChannelsIInv'
  BY <1>0, <1>1 DEF ChannelsIInv, Listed, Chat!membership
<1>2. UNCHANGED <<chatting, privates>> => PrivatesHeard'
  BY <1>0 DEF PrivatesHeard, Chat!Existing, Sound
<1>3. /\ UNCHANGED <<chatting, guildUsers>> => GuildsHeard'
      /\ UNCHANGED <<chatting, partyUsers>> => PartiesHeard'
  BY <1>0 DEF GuildsHeard, PartiesHeard
<1>4. ASSUME NEW p \in Players, Chat!RequestChannels(p) PROVE ChannelsIInv'
  <2>1. UNCHANGED <<Chat!membership, privates>>
    BY <1>4 DEF Chat!RequestChannels
  <2>2. GuildsHeard' /\ PartiesHeard'
    BY <1>0, <1>4 DEF Chat!RequestChannels, GuildsHeard, PartiesHeard, Chat!membership
  <2>3. QED
    BY <1>1, <1>2, <2>1, <2>2 DEF Chat!membership
<1>5. ASSUME NEW p \in Players, Chat!OpenGuildChannel(p) PROVE ChannelsIInv'
  <2>1. GuildsHeard' /\ UNCHANGED <<Chat!membership, partyUsers, privates>>
    BY <1>0, <1>5 DEF Chat!OpenGuildChannel, GuildsHeard, Chat!membership
  <2>2. QED
    BY <1>1, <1>2, <1>3, <2>1 DEF Chat!membership
<1>6. ASSUME NEW p \in Players, Chat!OpenPartyChannel(p) PROVE ChannelsIInv'
  <2>1. PartiesHeard' /\ UNCHANGED <<Chat!membership, guildUsers, privates>>
    BY <1>0, <1>6 DEF Chat!OpenPartyChannel, PartiesHeard, Chat!membership
  <2>2. QED
    BY <1>1, <1>2, <1>3, <2>1 DEF Chat!membership
<1>7. ASSUME NEW p \in Players, Chat!OpenPrivateChannel(p) PROVE ChannelsIInv'
  <2>1. PICK n \in Numbers :
          /\ p \in chatting /\ Chat!IsInvited(p, n)
          /\ privates' = [privates EXCEPT ![n].users = @ \cup {p}]
          /\ UNCHANGED <<Chat!membership, guildUsers, partyUsers>>
    BY <1>7 DEF Chat!OpenPrivateChannel
  <2>2. n \in Chat!Existing(privates) /\ p \in privates[n].invites \cup {privates[n].owner}
    BY <2>1 DEF Chat!IsInvited
  <2>3. /\ Sound(privates[n])
        /\ privates[n] = [owner |-> privates[n].owner, invites |-> privates[n].invites,
                          users |-> privates[n].users]
    BY <1>0, <2>2, PrivateFields
  <2>4. privates' = [privates EXCEPT ![n] =
                       [owner |-> privates[n].owner, invites |-> privates[n].invites,
                        users |-> privates[n].users \cup {p}]]
    <3>1. privates' = [privates EXCEPT ![n] = [privates[n] EXCEPT !.users = @ \cup {p}]]
      BY <1>0, <2>1 DEF PrivatesHeard
    <3>2. QED
      BY <2>3, <3>1, PrivateFieldsSet DEF Sound
  <2>5. PrivatesHeard'
    <3> DEFINE us == privates[n].users \cup {p}
               is == privates[n].invites
    <3>1. /\ us \in SUBSET chatting /\ is \in SUBSET chatting
          /\ privates[n].owner \in us /\ us \subseteq is \cup {privates[n].owner}
      BY <2>1, <2>2, <2>3 DEF Sound
    <3> HIDE DEF us, is
    <3>2. privates' = [privates EXCEPT ![n] = [owner |-> privates[n].owner, invites |-> is,
                                               users |-> us]]
      BY <2>4 DEF us, is
    <3>3. QED
      BY <1>0, <2>1, <2>2, <3>1, <3>2, PrivateUsers DEF Chat!membership
  <2>6. QED
    BY <1>1, <1>3, <2>1, <2>5 DEF Chat!membership
<1>8. ASSUME NEW p \in Players, Chat!CloseChannel(p) PROVE ChannelsIInv'
  <2>1. CASE guildUsers' = Chat!LeftGuild(guild, p) /\ UNCHANGED <<partyUsers, privates>>
    <3>1. GuildsHeard' /\ UNCHANGED Chat!membership
      BY <1>0, <1>8, <2>1 DEF Chat!CloseChannel, Chat!LeftGuild, Chat!Without, GuildsHeard,
         Chat!membership
    <3>2. QED
      BY <1>1, <1>2, <1>3, <2>1, <3>1 DEF Chat!membership
  <2>2. CASE partyUsers' = Chat!LeftParty(party, {p}) /\ UNCHANGED <<guildUsers, privates>>
    <3>1. PartiesHeard' /\ UNCHANGED Chat!membership
      BY <1>0, <1>8, <2>2 DEF Chat!CloseChannel, Chat!LeftParty, PartiesHeard, Chat!membership
    <3>2. QED
      BY <1>1, <1>2, <1>3, <2>2, <3>1 DEF Chat!membership
  <2>3. ASSUME NEW n \in Numbers, Chat!IsInvited(p, n), p \in privates[n].users,
               privates' = [privates EXCEPT ![n] = Chat!LeftPrivate(p, n)],
               UNCHANGED <<guildUsers, partyUsers>>
        PROVE  ChannelsIInv'
    <3>1. UNCHANGED Chat!membership
      BY <1>8 DEF Chat!CloseChannel
    <3>2. n \in Chat!Existing(privates)
      BY <2>3 DEF Chat!IsInvited
    <3>3. CASE privates[n].owner = p
      <4>1. Chat!LeftPrivate(p, n) = NoChannel
        BY <3>3 DEF Chat!LeftPrivate
      <4>2. PrivatesHeard'
        BY <1>0, <2>3, <3>1, <4>1, PrivateChanged DEF Chat!membership
      <4>3. QED
        BY <1>1, <1>3, <2>3, <3>1, <4>2 DEF Chat!membership
    <3>4. CASE privates[n].owner # p
      <4>1. /\ Sound(privates[n])
            /\ privates[n] = [owner |-> privates[n].owner, invites |-> privates[n].invites,
                              users |-> privates[n].users]
        BY <1>0, <3>2, PrivateFields
      <4> DEFINE us == privates[n].users \ {p}
                 is == privates[n].invites
      <4>2. /\ us \in SUBSET chatting /\ is \in SUBSET chatting
            /\ privates[n].owner \in us /\ us \subseteq is \cup {privates[n].owner}
        BY <3>4, <4>1 DEF Sound
      <4>3. Chat!LeftPrivate(p, n) = [owner |-> privates[n].owner, invites |-> is, users |-> us]
        BY <3>4, <4>1 DEF Chat!LeftPrivate
      <4> HIDE DEF us, is
      <4>4. PrivatesHeard'
        BY <1>0, <2>3, <3>1, <3>2, <4>2, <4>3, PrivateUsers DEF Chat!membership
      <4>5. QED
        BY <1>1, <1>3, <2>3, <3>1, <4>4 DEF Chat!membership
    <3>5. QED
      BY <3>3, <3>4
  <2>4. QED
    BY <1>8, <2>1, <2>2, <2>3 DEF Chat!CloseChannel
<1>9. ASSUME NEW p \in Players, Chat!CreatePrivateChannel(p) PROVE ChannelsIInv'
  <2> DEFINE n == Chat!Min(Numbers \ Chat!Existing(privates))
             c == [owner |-> p, invites |-> {}, users |-> {p}]
  <2>1. /\ p \in chatting /\ Chat!OwnedBy(p) = {}
        /\ privates' = [privates EXCEPT ![n] = c]
        /\ UNCHANGED <<Chat!membership, guildUsers, partyUsers>>
    BY <1>9 DEF Chat!CreatePrivateChannel, Chat!MayCreate
  <2>2. n \in Numbers
    BY <1>0, <2>1, FreeNumber
  <2>3. Sound(c) /\ c.owner = p
    BY <2>1 DEF Sound, Private
  <2>4. \A m \in Chat!Existing(privates) : privates[m].owner # p
    BY <2>1 DEF Chat!OwnedBy
  <2> HIDE DEF n, c
  <2>5. PrivatesHeard'
    BY <1>0, <2>1, <2>2, <2>3, <2>4, PrivateChanged DEF Chat!membership
  <2>6. QED
    BY <1>1, <1>3, <2>1, <2>5 DEF Chat!membership
<1>10. ASSUME NEW p \in Players, NEW q \in Players, Chat!ChannelInvite(p, q) PROVE ChannelsIInv'
  <2> DEFINE n == Chat!Min(Chat!OwnedBy(p))
  <2>1. /\ q \in chatting /\ Chat!OwnedBy(p) # {}
        /\ privates' = [privates EXCEPT ![n].invites = @ \cup {q}]
        /\ UNCHANGED <<Chat!membership, guildUsers, partyUsers>>
    BY <1>10 DEF Chat!ChannelInvite
  <2>2. n \in Chat!Existing(privates)
    BY <1>0, <2>1, Own
  <2> HIDE DEF n
  <2>3. /\ Sound(privates[n]) /\ n \in Numbers
        /\ privates[n] = [owner |-> privates[n].owner, invites |-> privates[n].invites,
                          users |-> privates[n].users]
    BY <1>0, <2>2, PrivateFields
  <2> DEFINE us == privates[n].users
             is == privates[n].invites \cup {q}
  <2>4. /\ us \in SUBSET chatting /\ is \in SUBSET chatting
        /\ privates[n].owner \in us /\ us \subseteq is \cup {privates[n].owner}
    BY <2>1, <2>3 DEF Sound
  <2>5. privates' = [privates EXCEPT ![n] = [owner |-> privates[n].owner, invites |-> is,
                                             users |-> us]]
    <3>1. privates' = [privates EXCEPT ![n] = [privates[n] EXCEPT !.invites = @ \cup {q}]]
      BY <1>0, <2>1 DEF PrivatesHeard
    <3>2. QED
      BY <2>3, <3>1, PrivateFieldsSet DEF Sound
  <2> HIDE DEF us, is
  <2>6. PrivatesHeard'
    BY <1>0, <2>1, <2>2, <2>4, <2>5, PrivateUsers DEF Chat!membership
  <2>7. QED
    BY <1>1, <1>3, <2>1, <2>6 DEF Chat!membership
<1>11. ASSUME NEW p \in Players, NEW q \in Players, Chat!ChannelExclude(p, q) PROVE ChannelsIInv'
  <2> DEFINE n == Chat!Min(Chat!OwnedBy(p))
  <2>1. /\ p # q /\ Chat!OwnedBy(p) # {}
        /\ privates' = [privates EXCEPT ![n] = Chat!Struck(@, q)]
        /\ UNCHANGED <<Chat!membership, guildUsers, partyUsers>>
    BY <1>11 DEF Chat!ChannelExclude
  <2>2. n \in Chat!Existing(privates) /\ privates[n].owner = p
    BY <1>0, <2>1, Own
  <2> HIDE DEF n
  <2>3. /\ Sound(privates[n]) /\ n \in Numbers
        /\ privates[n] = [owner |-> privates[n].owner, invites |-> privates[n].invites,
                          users |-> privates[n].users]
    BY <1>0, <2>2, PrivateFields
  <2> DEFINE us == privates[n].users \ {q}
             is == privates[n].invites \ {q}
  <2>4. /\ us \in SUBSET chatting /\ is \in SUBSET chatting
        /\ privates[n].owner \in us /\ us \subseteq is \cup {privates[n].owner}
    BY <2>1, <2>2, <2>3 DEF Sound
  <2>5. Chat!Struck(privates[n], q) = [owner |-> privates[n].owner, invites |-> is, users |-> us]
    BY <2>3, PrivateFieldsSet DEF Chat!Struck, Sound
  <2> HIDE DEF us, is
  <2>6. privates' = [privates EXCEPT ![n] = [owner |-> privates[n].owner, invites |-> is,
                                             users |-> us]]
    BY <2>1, <2>5
  <2>7. PrivatesHeard'
    BY <1>0, <2>1, <2>2, <2>4, <2>6, PrivateUsers DEF Chat!membership
  <2>8. QED
    BY <1>1, <1>3, <2>1, <2>7 DEF Chat!membership
<1>12. ASSUME NEW p \in Players, NEW g \in Guilds \cup {NoGuild}, Chat!SetGuild(p, g)
              PROVE ChannelsIInv'
  <2>1. p \in chatting /\ g # guild[p] /\ UNCHANGED <<chatting, party, Chat!channels>>
    BY <1>12 DEF Chat!SetGuild
  <2>2. GuildsHeard' /\ PartiesHeard' /\ PrivatesHeard'
    BY <1>2, <1>3, <2>1 DEF Chat!channels
  <2>3. CASE g \in Guilds \ Ranked
    <3>1. /\ guild' = [guild EXCEPT ![p] = NoGuild]
          /\ orphans' = orphans \cup {q \in {p} : guild[p] # NoGuild}
          /\ UNCHANGED membersOnline
      BY <1>12, <2>3 DEF Chat!SetGuild
    <3>2. Listed'
      BY <1>0, <2>1, <3>1 DEF Listed
    <3>3. QED
      BY <2>2, <3>2 DEF ChannelsIInv
  <2>4. CASE g \notin Guilds \ Ranked
    <3>1. /\ guild' = [guild EXCEPT ![p] = g]
          /\ membersOnline' = Chat!Moved(p, g)
          /\ UNCHANGED orphans
      BY <1>12, <2>4 DEF Chat!SetGuild
    <3>2. Listed'
      BY <1>0, <2>1, <3>1 DEF Listed, Chat!Moved
    <3>3. QED
      BY <2>2, <3>2 DEF ChannelsIInv
  <2>5. QED
    BY <2>3, <2>4
<1>13. ASSUME NEW p \in Players, NEW a \in Addresses, Chat!JoinParty(p, a) PROVE ChannelsIInv'
  <2>1. Listed' /\ UNCHANGED <<chatting, Chat!channels>>
    BY <1>0, <1>13 DEF Chat!JoinParty, Listed
  <2>2. QED
    BY <1>2, <1>3, <2>1 DEF ChannelsIInv, Chat!channels
<1>14. ASSUME NEW p \in Players, Chat!LeaveParty(p) PROVE ChannelsIInv'
  <2>1. PICK ps : party' = Chat!Quit(ps) /\ partyUsers' = Chat!LeftParty(Chat!Quit(ps), ps)
    BY <1>14 DEF Chat!LeaveParty
  <2>2. UNCHANGED <<chatting, guild, membersOnline, orphans, guildUsers, privates>>
    BY <1>14 DEF Chat!LeaveParty
  <2>3. Listed'
    BY <1>0, <2>1, <2>2 DEF Listed, Chat!Quit
  <2>4. PartiesHeard'
    BY <1>0, <2>1, <2>2 DEF PartiesHeard, Chat!LeftParty
  <2>5. QED
    BY <1>2, <1>3, <2>2, <2>3, <2>4 DEF ChannelsIInv
<1>15. ASSUME NEW p \in Players, Chat!Login(p) PROVE ChannelsIInv'
  <2>1. PICK g \in Guilds \cup {NoGuild} :
          /\ p \notin chatting /\ chatting' = chatting \cup {p}
          /\ guild' = [guild EXCEPT ![p] = g]
          /\ membersOnline' = [x \in Guilds |-> membersOnline[x] \cup {q \in {p} : x = g}]
          /\ UNCHANGED <<party, orphans, Chat!channels>>
    BY <1>15 DEF Chat!Login
  <2>2. Listed'
    BY <1>0, <2>1 DEF Listed
  <2>3. QED
    BY <2>1, <2>2, MoreOnline DEF ChannelsIInv
<1>16. ASSUME NEW p \in Players, Chat!Connect(p) PROVE ChannelsIInv'
  <2>1. p \in chatting /\ Chat!RemoveFromAll(p, partyUsers) /\ UNCHANGED Chat!membership
    BY <1>16 DEF Chat!Connect
  <2>2. partyUsers \in [Addresses -> (SUBSET chatting) \cup {NoChannel}]
    BY <1>0 DEF PartiesHeard
  <2>3. QED
    BY <1>1, <2>1, <2>2, RemovedFromAll DEF Chat!membership
<1>17. ASSUME NEW p \in Players, Chat!Logout(p) PROVE ChannelsIInv'
  <2>1. PICK ps :
          /\ p \in chatting /\ chatting' = chatting \ {p}
          /\ party' = Chat!Quit(ps) /\ Chat!RemoveFromAll(p, Chat!LeftParty(Chat!Quit(ps), ps))
          /\ membersOnline' = [x \in Guilds |-> membersOnline[x] \ {q \in {p} : x = guild[p]}]
          /\ guild' = [guild EXCEPT ![p] = NoGuild]
          /\ UNCHANGED orphans
    BY <1>17 DEF Chat!Logout
  <2>2. Listed'
    BY <1>0, <2>1 DEF Listed, Chat!Quit
  <2>3. Chat!LeftParty(Chat!Quit(ps), ps) \in [Addresses -> (SUBSET chatting) \cup {NoChannel}]
    BY <1>0 DEF PartiesHeard, Chat!LeftParty
  <2>4. GuildsHeard' /\ PartiesHeard' /\ PrivatesHeard'
    BY <2>1, <2>3, RemovedFromAll
  <2>5. QED
    BY <2>2, <2>4 DEF ChannelsIInv
<1>18. CASE UNCHANGED Chat!vars
  <2>1. UNCHANGED <<Chat!membership, Chat!channels>>
    BY <1>18 DEF Chat!vars, Chat!membership, Chat!channels
  <2>2. QED
    BY <1>1, <1>2, <1>3, <2>1 DEF Chat!membership, Chat!channels
<1>19. QED
  BY <1>4, <1>5, <1>6, <1>7, <1>8, <1>9, <1>10, <1>11, <1>12, <1>13, <1>14, <1>15,
     <1>16, <1>17, <1>18 DEF Chat!Next

LEMMA SameSize == \A S : Chat!Cardinality(S) = Cardinality(S)
<1>1. \A S : Chat!IsFiniteSet(S) <=> IsFiniteSet(S)
  BY DEF Chat!IsFiniteSet, IsFiniteSet
<1>2. QED
  BY <1>1 DEF Chat!Cardinality, Cardinality

LEMMA ChannelsKept == ChannelsIInv => Chat!ChannelsInv
<1> SUFFICES ASSUME ChannelsIInv PROVE Chat!ChannelsInv
  OBVIOUS
<1>0. Listed /\ GuildsHeard /\ PartiesHeard /\ PrivatesHeard
  BY DEF ChannelsIInv
<1>1. Chat!TypeOK
  <2>1. /\ guildUsers \in [Guilds -> (SUBSET Players) \cup {NoChannel}]
        /\ partyUsers \in [Addresses -> (SUBSET Players) \cup {NoChannel}]
    BY <1>0 DEF Listed, GuildsHeard, PartiesHeard
  <2>2. privates \in [Numbers -> Chat!Channel]
    BY <1>0 DEF PrivatesHeard, Private, Chat!Channel
  <2>3. QED
    BY <1>0, <2>1, <2>2 DEF Chat!TypeOK, Listed
<1>2. Chat!Listening \subseteq chatting
  <2>1. /\ \A g \in Guilds : guildUsers[g] # NoChannel => guildUsers[g] \subseteq chatting
        /\ \A a \in Addresses : partyUsers[a] # NoChannel => partyUsers[a] \subseteq chatting
    BY <1>0 DEF GuildsHeard, PartiesHeard
  <2>2. \A n \in Chat!Existing(privates) :
          privates[n].users \cup privates[n].invites \subseteq chatting
    BY <1>0 DEF PrivatesHeard, Sound
  <2>3. QED
    BY <2>1, <2>2 DEF Chat!Listening
<1>3. \A n \in Chat!Existing(privates) :
        /\ privates[n].owner \in privates[n].users
        /\ privates[n].users \subseteq privates[n].invites \cup {privates[n].owner}
  BY <1>0 DEF PrivatesHeard, Sound
<1>4. ASSUME NEW p \in Players PROVE Cardinality(Chat!OwnedBy(p)) <= 1
  <2>1. CASE Chat!OwnedBy(p) = {}
    BY <2>1, FS_EmptySet
  <2>2. CASE Chat!OwnedBy(p) # {}
    <3>1. PICK n \in Chat!OwnedBy(p) : TRUE
      BY <2>2
    <3>2. Chat!OwnedBy(p) = {n}
      BY <1>0, <3>1 DEF Chat!OwnedBy, PrivatesHeard
    <3>3. Cardinality({n}) = 1
      BY FS_Singleton
    <3>4. QED
      BY <3>2, <3>3
  <2>3. QED
    BY <2>1, <2>2
<1>5. \A g \in Guilds :
        membersOnline[g] \ orphans = {p \in chatting : guild[p] = g} \ orphans
  BY <1>0 DEF Listed
<1>6. QED
  BY <1>1, <1>2, <1>3, <1>4, <1>5, SameSize DEF Chat!ChannelsInv

-----------------------------------------------------------------------------
(* Flight.  What a step does to the distance.                                *)
Nearer(p, d) == Steps!Distance(Steps!Plus(p, d)) < Steps!Distance(p)
Further(p, d) == Steps!Distance(Steps!Plus(p, d)) > Steps!Distance(p)
Longer(p, d) == Steps!Walked(Steps!Plus(p, d)) > Steps!Walked(p)

Suits(steps, open, p, flee) ==
  LET ways == open \cap Steps!Cardinals
  IN /\ steps \ {Steps!None} \subseteq open
     /\ (\E d \in ways : Further(p, d)) => \A d \in steps : Further(p, d)
     /\ (\E d \in ways : Longer(p, d)) => \A d \in steps : Longer(p, d)
     /\ \A d \in steps : Nearer(p, d) => flee /\ ways = {d}
     /\ flee /\ ways # {} => Steps!None \notin steps

LEMMA Judged ==
  ASSUME NEW p,
         \A open \in SUBSET Steps!Steps, flee \in BOOLEAN :
           Suits(Steps!DistanceStep(open, p, flee), open, p, flee)
  PROVE  Steps!GetsAway(p)
BY DEF Steps!GetsAway, Suits, Nearer, Further, Longer

(* The first row that leaves a choice. *)
LEMMA FirstFound ==
  ASSUME NEW rows, NEW n \in Nat, DOMAIN rows = 1..n
  PROVE  /\ \A i \in 1..n :
              rows[i] # {} /\ (\A j \in 1..n : j < i => rows[j] = {})
                => Steps!FirstOf(rows) = rows[i]
         /\ (\A i \in 1..n : rows[i] = {}) => Steps!FirstOf(rows) = {Steps!None}
<1>1. ASSUME NEW i \in 1..n, rows[i] # {}, \A j \in 1..n : j < i => rows[j] = {}
      PROVE  Steps!FirstOf(rows) = rows[i]
  <2> DEFINE left == {k \in DOMAIN rows : rows[k] # {}}
  <2>1. i \in left /\ \A j \in left : i <= j
    BY <1>1
  <2>2. \A k \in left : (\A j \in left : k <= j) => k = i
    BY <2>1
  <2>3. (CHOOSE k \in left : \A j \in left : k <= j) = i
    BY <2>1, <2>2
  <2>4. left # {}
    BY <2>1
  <2>5. QED
    BY <2>3, <2>4 DEF Steps!FirstOf
<1>2. (\A i \in 1..n : rows[i] = {}) => Steps!FirstOf(rows) = {Steps!None}
  BY DEF Steps!FirstOf
<1>3. QED
  BY <1>1, <1>2

LEMMA FirstOfOne ==
  ASSUME NEW a
  PROVE  Steps!FirstOf(<<a>>) = IF a # {} THEN a ELSE {Steps!None}
<1> DEFINE rows == <<a>>
<1>1. DOMAIN rows = 1..1 /\ rows[1] = a
  OBVIOUS
<1> HIDE DEF rows
<1>2. /\ rows[1] # {} => Steps!FirstOf(rows) = rows[1]
      /\ rows[1] = {} => Steps!FirstOf(rows) = {Steps!None}
  <2>1. /\ 1 \in 1..1 /\ \A i \in 1..1 : i = 1
        /\ \A j \in 1..1 : ~(j < 1)
    OBVIOUS
  <2>2. QED
    BY <1>1, <2>1, FirstFound
<1>3. QED
  BY <1>1, <1>2 DEF rows

(* The rows of getDistanceStep for a target on a diagonal.                   *)
LEMMA FirstOfFive ==
  ASSUME NEW a, NEW b, NEW c, NEW d, NEW e
  PROVE  Steps!FirstOf(<<a, b, c, d, e>>) =
           IF a # {} THEN a ELSE IF b # {} THEN b ELSE IF c # {} THEN c
           ELSE IF d # {} THEN d ELSE IF e # {} THEN e ELSE {Steps!None}
<1> DEFINE rows == <<a, b, c, d, e>>
<1>1. /\ DOMAIN rows = 1..5
      /\ rows[1] = a /\ rows[2] = b /\ rows[3] = c /\ rows[4] = d /\ rows[5] = e
  OBVIOUS
<1> HIDE DEF rows
<1>2. \A i \in 1..5 : i = 1 \/ i = 2 \/ i = 3 \/ i = 4 \/ i = 5
  OBVIOUS
<1>3. /\ \A i \in 1..5 :
           rows[i] # {} /\ (\A j \in 1..5 : j < i => rows[j] = {}) => Steps!FirstOf(rows) = rows[i]
      /\ (\A i \in 1..5 : rows[i] = {}) => Steps!FirstOf(rows) = {Steps!None}
  BY <1>1, FirstFound
<1>4. CASE a # {}
  <2>1. Steps!FirstOf(rows) = rows[1]
    BY <1>1, <1>2, <1>3, <1>4
  <2>2. QED
    BY <1>1, <1>4, <2>1 DEF rows
<1>5. CASE a = {} /\ b # {}
  <2>1. Steps!FirstOf(rows) = rows[2]
    BY <1>1, <1>2, <1>3, <1>5
  <2>2. QED
    BY <1>1, <1>5, <2>1 DEF rows
<1>6. CASE a = {} /\ b = {} /\ c # {}
  <2>1. Steps!FirstOf(rows) = rows[3]
    BY <1>1, <1>2, <1>3, <1>6
  <2>2. QED
    BY <1>1, <1>6, <2>1 DEF rows
<1>7. CASE a = {} /\ b = {} /\ c = {} /\ d # {}
  <2>1. Steps!FirstOf(rows) = rows[4]
    BY <1>1, <1>2, <1>3, <1>7
  <2>2. QED
    BY <1>1, <1>7, <2>1 DEF rows
<1>8. CASE a = {} /\ b = {} /\ c = {} /\ d = {} /\ e # {}
  <2>1. Steps!FirstOf(rows) = rows[5]
    BY <1>1, <1>2, <1>3, <1>8
  <2>2. QED
    BY <1>1, <1>8, <2>1 DEF rows
<1>9. CASE a = {} /\ b = {} /\ c = {} /\ d = {} /\ e = {}
  <2>1. Steps!FirstOf(rows) = {Steps!None}
    BY <1>1, <1>2, <1>3, <1>9
  <2>2. QED
    BY <1>9, <2>1 DEF rows
<1>10. QED
  BY <1>4, <1>5, <1>6, <1>7, <1>8, <1>9

(* And for the others: whatever row it is, one of those before it leaves     *)
(* nothing.                                                                  *)
LEMMA FirstOfNine ==
  ASSUME NEW a, NEW b, NEW c, NEW d, NEW e, NEW f, NEW g, NEW h, NEW k
  PROVE  LET result == Steps!FirstOf(<<a, b, c, d, e, f, g, h, k>>)
         IN \/ a # {} /\ result = a
            \/ a = {} /\ b # {} /\ result = b
            \/ a = {} /\ b = {} /\ result = c
            \/ a = {} /\ b = {} /\ c = {} /\ result \in {d, e, f, g, h, k}
            \/ a = {} /\ b = {} /\ c = {} /\ k = {} /\ result = {Steps!None}
<1> DEFINE rows == <<a, b, c, d, e, f, g, h, k>>
<1>1. /\ DOMAIN rows = 1..9
      /\ rows[1] = a /\ rows[2] = b /\ rows[3] = c /\ rows[4] = d /\ rows[5] = e
      /\ rows[6] = f /\ rows[7] = g /\ rows[8] = h /\ rows[9] = k
  OBVIOUS
<1> HIDE DEF rows
<1>2. \A i \in 1..9 : i = 1 \/ i = 2 \/ i = 3 \/ i = 4 \/ i = 5 \/ i = 6 \/ i = 7 \/ i = 8 \/ i = 9
  OBVIOUS
<1>3. /\ \A i \in 1..9 :
           rows[i] # {} /\ (\A j \in 1..9 : j < i => rows[j] = {}) => Steps!FirstOf(rows) = rows[i]
      /\ (\A i \in 1..9 : rows[i] = {}) => Steps!FirstOf(rows) = {Steps!None}
  BY <1>1, FirstFound
<1>4. CASE a # {}
  <2>1. Steps!FirstOf(rows) = a
    BY <1>1, <1>2, <1>3, <1>4
  <2>2. QED
    BY <1>4, <2>1 DEF rows
<1>5. CASE a = {} /\ b # {}
  <2>1. Steps!FirstOf(rows) = b
    BY <1>1, <1>2, <1>3, <1>5
  <2>2. QED
    BY <1>5, <2>1 DEF rows
<1>6. CASE a = {} /\ b = {} /\ c # {}
  <2>1. Steps!FirstOf(rows) = c
    BY <1>1, <1>2, <1>3, <1>6
  <2>2. QED
    BY <1>6, <2>1 DEF rows
<1>7. CASE a = {} /\ b = {} /\ c = {} /\ ~(d = {} /\ e = {} /\ f = {} /\ g = {} /\ h = {} /\ k = {})
  <2>1. \/ d # {}
        \/ d = {} /\ e # {}
        \/ d = {} /\ e = {} /\ f # {}
        \/ d = {} /\ e = {} /\ f = {} /\ g # {}
        \/ d = {} /\ e = {} /\ f = {} /\ g = {} /\ h # {}
        \/ d = {} /\ e = {} /\ f = {} /\ g = {} /\ h = {} /\ k # {}
    BY <1>7
  <2>2. CASE d # {}
    BY <1>1, <1>2, <1>3, <1>7, <2>2 DEF rows
  <2>3. CASE d = {} /\ e # {}
    BY <1>1, <1>2, <1>3, <1>7, <2>3 DEF rows
  <2>4. CASE d = {} /\ e = {} /\ f # {}
    BY <1>1, <1>2, <1>3, <1>7, <2>4 DEF rows
  <2>5. CASE d = {} /\ e = {} /\ f = {} /\ g # {}
    BY <1>1, <1>2, <1>3, <1>7, <2>5 DEF rows
  <2>6. CASE d = {} /\ e = {} /\ f = {} /\ g = {} /\ h # {}
    BY <1>1, <1>2, <1>3, <1>7, <2>6 DEF rows
  <2>7. CASE d = {} /\ e = {} /\ f = {} /\ g = {} /\ h = {} /\ k # {}
    BY <1>1, <1>2, <1>3, <1>7, <2>7 DEF rows
  <2>8. QED
    BY <2>1, <2>2, <2>3, <2>4, <2>5, <2>6, <2>7
<1>8. CASE a = {} /\ b = {} /\ c = {} /\ d = {} /\ e = {} /\ f = {} /\ g = {} /\ h = {} /\ k = {}
  <2>1. Steps!FirstOf(rows) = {Steps!None}
    BY <1>1, <1>2, <1>3, <1>8
  <2>2. QED
    BY <1>8, <2>1 DEF rows
<1>9. QED
  BY <1>4, <1>5, <1>6, <1>7, <1>8

-----------------------------------------------------------------------------
(* Steps. *)

LEMMA StepFacts ==
  /\ Steps!Cardinals = {<<1, 0>>, <<-1, 0>>, <<0, 1>>, <<0, -1>>}
  /\ Steps!Cardinals \subseteq Steps!Steps /\ Steps!None \notin Steps!Steps
  /\ \A d \in Steps!Steps : d \in Int \X Int
<1>1. \A d \in Steps!Steps :
        /\ d \in Int \X Int /\ d = <<d[1], d[2]>>
        /\ d[1] \in {-1, 0, 1} /\ d[2] \in {-1, 0, 1} /\ d # Steps!None
  BY DEF Steps!Steps
<1>2. {<<1, 0>>, <<-1, 0>>, <<0, 1>>, <<0, -1>>} \subseteq Steps!Cardinals
  BY DEF Steps!Cardinals, Steps!Steps, Steps!None
<1>3. ASSUME NEW d \in Steps!Cardinals PROVE d \in {<<1, 0>>, <<-1, 0>>, <<0, 1>>, <<0, -1>>}
  <2>1. /\ d = <<d[1], d[2]>> /\ d # <<0, 0>> /\ (d[1] = 0 \/ d[2] = 0)
        /\ d[1] \in {-1, 0, 1} /\ d[2] \in {-1, 0, 1}
    BY <1>1 DEF Steps!Cardinals, Steps!None
  <2>2. QED
    BY <2>1
<1>4. QED
  BY <1>1, <1>2, <1>3 DEF Steps!Cardinals

(* The coordinates of a step. *)
LEMMA Coordinates ==
  ASSUME NEW x \in Int, NEW y \in Int, NEW a \in Int, NEW b \in Int
  PROVE  /\ Steps!Plus(<<x, y>>, <<a, b>>) = <<x + a, y + b>>
         /\ Steps!Minus(<<a, b>>) = <<-a, -b>>
         /\ Steps!Distance(<<x, y>>) = Steps!Larger(Steps!Abs(x), Steps!Abs(y))
         /\ Steps!Walked(<<x, y>>) = Steps!Abs(x) + Steps!Abs(y)
BY DEF Steps!Plus, Steps!Minus, Steps!Distance, Steps!Walked

(* A step turned round.                                                      *)
LEMMA Turned ==
  ASSUME NEW a \in Int, NEW b \in Int, NEW z \in Int, z = 0
  PROVE  /\ Steps!Minus(<<a, z>>) = <<-a, z>> /\ Steps!Minus(<<z, b>>) = <<z, -b>>
         /\ a = -1 => Steps!Minus(<<a, z>>) = <<1, z>>
<1>1. \A n \in Int : (n = 0 <=> -n = 0) /\ (n = -1 <=> -n = 1)
  OBVIOUS
<1>2. -z = z /\ (a = -1 => -a = 1)
  BY <1>1
<1>3. /\ <<a, z>>[1] = a /\ <<a, z>>[2] = z /\ <<z, b>>[1] = z /\ <<z, b>>[2] = b
  OBVIOUS
<1>4. QED
  BY <1>2, <1>3, Zenon DEF Steps!Minus

LEMMA TurnedRound ==
  \A a, b \in Int :
    /\ Steps!Minus(<<a, 0>>) = <<-a, 0>> /\ Steps!Minus(<<0, b>>) = <<0, -b>>
    /\ a = -1 => Steps!Minus(<<a, 0>>) = <<1, 0>>
<1>1. 0 \in Int
  OBVIOUS
<1>2. QED
  BY <1>1, Turned, Zenon

(* A step changes the distance by what it does to the coordinates.           *)
LEMMA Compared ==
  ASSUME NEW x \in Int, NEW y \in Int, NEW a \in Int, NEW b \in Int
  PROVE  LET p == <<x, y>>
             d == <<a, b>>
         IN /\ Nearer(p, d)
                 <=> Steps!Larger(Steps!Abs(x + a), Steps!Abs(y + b))
                 < Steps!Larger(Steps!Abs(x), Steps!Abs(y))
            /\ Further(p, d)
                 <=> Steps!Larger(Steps!Abs(x + a), Steps!Abs(y + b))
                 > Steps!Larger(Steps!Abs(x), Steps!Abs(y))
            /\ Longer(p, d) <=> Steps!Abs(x + a) + Steps!Abs(y + b) > Steps!Abs(x) + Steps!Abs(y)
<1>1. x + a \in Int /\ y + b \in Int
  OBVIOUS
<1>2. /\ Steps!Distance(Steps!Plus(<<x, y>>, <<a, b>>))
            = Steps!Larger(Steps!Abs(x + a), Steps!Abs(y + b))
      /\ Steps!Walked(Steps!Plus(<<x, y>>, <<a, b>>)) = Steps!Abs(x + a) + Steps!Abs(y + b)
  <2>1. Steps!Plus(<<x, y>>, <<a, b>>) = <<x + a, y + b>>
    BY DEF Steps!Plus
  <2>2. /\ Steps!Distance(<<x + a, y + b>>) = Steps!Larger(Steps!Abs(x + a), Steps!Abs(y + b))
        /\ Steps!Walked(<<x + a, y + b>>) = Steps!Abs(x + a) + Steps!Abs(y + b)
    BY <1>1, Zenon DEF Steps!Distance, Steps!Walked
  <2>3. QED
    BY <2>1, <2>2, Zenon
<1>3. /\ Steps!Distance(<<x, y>>) = Steps!Larger(Steps!Abs(x), Steps!Abs(y))
      /\ Steps!Walked(<<x, y>>) = Steps!Abs(x) + Steps!Abs(y)
  BY Coordinates
<1>4. Nearer(<<x, y>>, <<a, b>>)
      <=> Steps!Larger(Steps!Abs(x + a), Steps!Abs(y + b))
        < Steps!Larger(Steps!Abs(x), Steps!Abs(y))
  BY <1>2, <1>3 DEF Nearer
<1>5. Further(<<x, y>>, <<a, b>>)
      <=> Steps!Larger(Steps!Abs(x + a), Steps!Abs(y + b))
        > Steps!Larger(Steps!Abs(x), Steps!Abs(y))
  BY <1>2, <1>3 DEF Further
<1>6. Longer(<<x, y>>, <<a, b>>)
      <=> Steps!Abs(x + a) + Steps!Abs(y + b) > Steps!Abs(x) + Steps!Abs(y)
  BY <1>2, <1>3 DEF Longer
<1>7. QED
  BY <1>4, <1>5, <1>6

LEMMA NoStep ==
  ASSUME NEW x \in Int, NEW y \in Int
  PROVE  ~Nearer(<<x, y>>, Steps!None)
<1>1. Steps!Larger(Steps!Abs(x), Steps!Abs(y)) \in Int
  BY DEF Steps!Larger, Steps!Abs
<1>2. QED
  BY <1>1, Compared DEF Steps!None

(* The target is on the monster: every step goes away.                       *)
LEMMA OnTheSpot ==
  ASSUME NEW open \in SUBSET Steps!Steps, NEW flee \in BOOLEAN
  PROVE  Suits(Steps!DistanceStep(open, <<0, 0>>, flee), open, <<0, 0>>, flee)
<1> DEFINE p == <<0, 0>>
           ways == open \cap Steps!Cardinals
           steps == Steps!DistanceStep(open, p, flee)
<1>1. steps = IF ways # {} THEN ways ELSE {Steps!None}
  BY FirstOfOne DEF Steps!DistanceStep, Steps!RandomStep
<1>2. ASSUME NEW d \in Steps!Cardinals PROVE Further(p, d) /\ Longer(p, d) /\ ~Nearer(p, d)
  <2>1. CASE d = <<1, 0>>
    BY <2>1, Compared DEF Steps!Larger, Steps!Abs
  <2>2. CASE d = <<-1, 0>>
    BY <2>2, Compared DEF Steps!Larger, Steps!Abs
  <2>3. CASE d = <<0, 1>>
    BY <2>3, Compared DEF Steps!Larger, Steps!Abs
  <2>4. CASE d = <<0, -1>>
    BY <2>4, Compared DEF Steps!Larger, Steps!Abs
  <2>5. QED
    BY <2>1, <2>2, <2>3, <2>4, StepFacts
<1> HIDE DEF p
<1>3. CASE ways # {}
  <2>1. steps = ways /\ Steps!None \notin steps
    BY <1>1, <1>3, StepFacts
  <2>2. QED
    BY <1>2, <2>1 DEF Suits, p
<1>4. CASE ways = {}
  <2>1. steps = {Steps!None} /\ ~Nearer(p, Steps!None)
    BY <1>1, <1>4, NoStep DEF p
  <2>2. QED
    BY <1>4, <2>1 DEF Suits, p
<1>5. QED
  BY <1>3, <1>4

(* The target is on a diagonal: two of the four directions go away from it,  *)
(* the others lead past it.                                                  *)
LEMMA Past ==
  ASSUME NEW x \in Int, NEW y \in Int, Steps!Abs(x) = Steps!Abs(y), x # 0
  PROVE  LET p == <<x, y>>
             h == <<-Steps!Sign(x), 0>>
             v == <<0, -Steps!Sign(y)>>
         IN /\ Steps!Sign(x) \in {-1, 1} /\ Steps!Sign(y) \in {-1, 1}
            /\ Steps!Cardinals = Steps!Leaving(p) \cup {h, v}
            /\ \A d \in Steps!Leaving(p) : Further(p, d) /\ Longer(p, d) /\ ~Nearer(p, d)
            /\ \A d \in {h, v} : ~Further(p, d) /\ ~Longer(p, d) /\ ~Nearer(p, d)
            /\ ~Nearer(p, <<Steps!Sign(x), Steps!Sign(y)>>)
            /\ Steps!Plus(Steps!Minus(<<Steps!Sign(x), Steps!Sign(y)>>), Steps!Minus(h)) = v
            /\ Steps!Plus(Steps!Minus(<<Steps!Sign(x), Steps!Sign(y)>>), Steps!Minus(v)) = h
<1> DEFINE p == <<x, y>>
           s == Steps!Sign(x)
           t == Steps!Sign(y)
<1>1. /\ s \in {-1, 1} /\ t \in {-1, 1}
      /\ Steps!Abs(x) = s * x /\ Steps!Abs(y) = t * y /\ y # 0
      /\ (s = 1 => x > 0) /\ (s = -1 => x < 0) /\ (t = 1 => y > 0) /\ (t = -1 => y < 0)
  BY DEF Steps!Abs, Steps!Sign
<1>2. Steps!Leaving(p) = {<<s, 0>>, <<0, t>>}
  BY DEF Steps!Leaving
<1> HIDE DEF s, t
<1>3. Steps!Cardinals = {<<s, 0>>, <<0, t>>} \cup {<<-s, 0>>, <<0, -t>>}
  BY <1>1, StepFacts
<1>4. /\ Further(p, <<s, 0>>) /\ Longer(p, <<s, 0>>) /\ ~Nearer(p, <<s, 0>>)
      /\ Further(p, <<0, t>>) /\ Longer(p, <<0, t>>) /\ ~Nearer(p, <<0, t>>)
      /\ ~Nearer(p, <<s, t>>)
  BY <1>1, Compared DEF Steps!Larger, Steps!Abs
<1>5. /\ ~Further(p, <<-s, 0>>) /\ ~Longer(p, <<-s, 0>>) /\ ~Nearer(p, <<-s, 0>>)
      /\ ~Further(p, <<0, -t>>) /\ ~Longer(p, <<0, -t>>) /\ ~Nearer(p, <<0, -t>>)
  BY <1>1, Compared DEF Steps!Larger, Steps!Abs
<1>6. /\ Steps!Plus(Steps!Minus(<<s, t>>), Steps!Minus(<<-s, 0>>)) = <<0, -t>>
      /\ Steps!Plus(Steps!Minus(<<s, t>>), Steps!Minus(<<0, -t>>)) = <<-s, 0>>
  BY <1>1 DEF Steps!Plus, Steps!Minus
<1>7. QED
  BY <1>1, <1>2, <1>3, <1>4, <1>5, <1>6 DEF s, t

LEMMA OnADiagonal ==
  ASSUME NEW x \in Int, NEW y \in Int, Steps!Abs(x) = Steps!Abs(y), x # 0,
         NEW open \in SUBSET Steps!Steps, NEW flee \in BOOLEAN
  PROVE  Suits(Steps!DistanceStep(open, <<x, y>>, flee), open, <<x, y>>, flee)
<1> DEFINE p == <<x, y>>
           h == <<-Steps!Sign(x), 0>>
           v == <<0, -Steps!Sign(y)>>
           away == <<Steps!Sign(x), Steps!Sign(y)>>
           first == IF away = <<-1, -1>> THEN v ELSE h
           second == Steps!Plus(Steps!Minus(away), Steps!Minus(first))
           Beside(d) == Steps!If({d, Steps!Plus(d, Steps!Plus(d, away))} \subseteq open, {d})
           steps == Steps!DistanceStep(open, p, flee)
           ways == open \cap Steps!Cardinals
<1>1. /\ Steps!Cardinals = Steps!Leaving(p) \cup {h, v}
      /\ \A d \in Steps!Leaving(p) : Further(p, d) /\ Longer(p, d) /\ ~Nearer(p, d)
      /\ \A d \in {h, v} : ~Further(p, d) /\ ~Longer(p, d) /\ ~Nearer(p, d)
      /\ ~Nearer(p, away)
      /\ first \in {h, v} /\ second \in {h, v}
  BY Past
<1>2. Beside(first) \subseteq open \cap {h, v} /\ Beside(second) \subseteq open \cap {h, v}
  BY <1>1 DEF Steps!If
<1>3. p # <<0, 0>> /\ Steps!Diagonal(p)
  BY DEF Steps!Diagonal
<1>4. steps = Steps!DiagonalStep(open, p, flee)
  BY <1>3 DEF Steps!DistanceStep
<1>5. Steps!DiagonalStep(open, p, flee) =
        Steps!FirstOf(<<open \cap Steps!Leaving(p), open \cap {away},
          Steps!If(flee, open \cap {h, v}),
                  Beside(first), Beside(second)>>)
  BY DEF Steps!DiagonalStep
<1> DEFINE third == Steps!If(flee, open \cap {h, v})
           fourth == Beside(first)
           fifth == Beside(second)
<1>6. third = (IF flee THEN open \cap {h, v} ELSE {})
  BY DEF Steps!If
<1>7. Steps!None \notin open /\ ~Nearer(p, Steps!None)
  BY StepFacts, NoStep
<1>8. fourth \subseteq open \cap {h, v} /\ fifth \subseteq open \cap {h, v}
  BY <1>2
<1>9. steps = Steps!FirstOf(<<open \cap Steps!Leaving(p), open \cap {away}, third, fourth, fifth>>)
  BY <1>4, <1>5
<1> SUFFICES Suits(steps, open, p, flee)
  OBVIOUS
<1> HIDE DEF p, h, v, away, third, fourth, fifth, steps
<1>10. \/ steps = open \cap Steps!Leaving(p) /\ steps # {}
       \/ /\ open \cap Steps!Leaving(p) = {}
          /\ \/ steps = open \cap {away}
             \/ steps = third /\ steps # {}
             \/ third = {} /\ steps \in {fourth, fifth, {Steps!None}}
  BY <1>9, FirstOfFive
<1>11. CASE steps = open \cap Steps!Leaving(p) /\ steps # {}
  BY <1>1, <1>7, <1>11 DEF Suits
<1>12. CASE open \cap Steps!Leaving(p) = {}
  <2>1. /\ ways \subseteq {h, v}
        /\ \A d \in ways : ~Further(p, d) /\ ~Longer(p, d)
    BY <1>1, <1>12
  <2>2. CASE steps = open \cap {away}
    BY <1>1, <1>7, <2>1, <2>2 DEF Suits
  <2>3. CASE steps = third /\ steps # {}
    BY <1>1, <1>6, <1>7, <2>1, <2>3 DEF Suits
  <2>4. CASE third = {} /\ steps \in {fourth, fifth, {Steps!None}}
    <3>1. flee => ways = {}
      BY <1>6, <2>1, <2>4
    <3>2. \A d \in steps : ~Nearer(p, d)
      BY <1>1, <1>7, <1>8, <2>4
    <3>3. steps \ {Steps!None} \subseteq open
      BY <1>8, <2>4
    <3>4. QED
      BY <2>1, <3>1, <3>2, <3>3 DEF Suits
  <2>5. QED
    BY <1>10, <1>12, <2>2, <2>3, <2>4, <1>11
<1>13. QED
  BY <1>10, <1>11, <1>12

(* The target is nearer to the monster's row or column: one direction goes   *)
(* straight away from it and one towards it, the two between them to a side, *)
(* and a diagonal does not come nearer if it has the first of them in it.    *)
Straight(p) ==
  IF Steps!Abs(p[2]) > Steps!Abs(p[1]) THEN <<0, Steps!Sign(p[2])>> ELSE <<Steps!Sign(p[1]), 0>>
FirstSide(p) == IF Straight(p)[1] = 0 THEN <<-1, 0>> ELSE <<0, Straight(p)[1]>>

Aside(p, away, first, second) ==
  /\ away \in Steps!Cardinals /\ first \in Steps!Sides(p) /\ second \in Steps!Sides(p)
  /\ Steps!Cardinals = Steps!Sides(p) \cup {away, Steps!Minus(away)}
  /\ Further(p, away) /\ Longer(p, away) /\ ~Nearer(p, away)
  /\ ~Further(p, Steps!Minus(away)) /\ ~Longer(p, Steps!Minus(away))
  /\ \A d \in Steps!Sides(p) : ~Further(p, d) /\ ~Nearer(p, d)
       /\ (Longer(p, d) <=> d \in Steps!Outward(p))
  /\ ~Nearer(p, Steps!Plus(away, first)) /\ ~Nearer(p, Steps!Plus(away, second))

LEMMA AsideInColumn ==
  ASSUME NEW x \in Int, NEW y \in Int, Steps!Abs(y) > Steps!Abs(x)
  PROVE  LET p == <<x, y>>
         IN Aside(p, Straight(p), FirstSide(p), Steps!Minus(FirstSide(p)))
<1> DEFINE p == <<x, y>>
           t == Steps!Sign(y)
<1>1. /\ t \in {-1, 1}
      /\ (t = 1 => y > 0) /\ (t = -1 => y < 0)
  BY DEF Steps!Abs, Steps!Sign
<1>2. /\ Straight(p) = <<0, t>> /\ FirstSide(p) = <<-1, 0>> /\ Steps!Minus(FirstSide(p)) = <<1, 0>>
      /\ Steps!Minus(Straight(p)) = <<0, -t>>
      /\ Steps!Plus(<<0, t>>, <<-1, 0>>) = <<-1, t>> /\ Steps!Plus(<<0, t>>, <<1, 0>>) = <<1, t>>
  <2>1. Straight(p) = <<0, t>>
    BY DEF Straight
  <2>2. <<0, t>>[1] = 0
    OBVIOUS
  <2>3. FirstSide(p) = <<-1, 0>>
    BY <2>1, <2>2 DEF FirstSide
  <2>4. Steps!Minus(<<0, t>>) = <<0, -t>> /\ Steps!Minus(<<-1, 0>>) = <<1, 0>>
    <3>1. t \in Int /\ -1 \in Int
      BY <1>1
    <3> HIDE DEF t
    <3>2. QED
      BY <3>1, TurnedRound, Zenon
  <2>5. Steps!Plus(<<0, t>>, <<-1, 0>>) = <<-1, t>> /\ Steps!Plus(<<0, t>>, <<1, 0>>) = <<1, t>>
    BY <1>1 DEF Steps!Plus
  <2>6. QED
    BY <2>1, <2>3, <2>4, <2>5
<1>3. Steps!Sides(p) = {<<1, 0>>, <<-1, 0>>}
  BY StepFacts DEF Steps!Sides, Steps!Abs
<1>4. \A d \in Steps!Sides(p) : d \in Steps!Outward(p) <=> d[1] * x >= 0
  BY <1>3 DEF Steps!Outward
<1>5. /\ <<1, 0>> \in Steps!Outward(p) <=> x >= 0
      /\ <<-1, 0>> \in Steps!Outward(p) <=> x <= 0
  BY <1>3, <1>4
<1> HIDE DEF t
<1>6. Further(p, <<0, t>>) /\ Longer(p, <<0, t>>) /\ ~Nearer(p, <<0, t>>)
  BY <1>1, Compared DEF Steps!Larger, Steps!Abs
<1>7. ~Further(p, <<0, -t>>) /\ ~Longer(p, <<0, -t>>)
  BY <1>1, Compared DEF Steps!Larger, Steps!Abs
<1>8. /\ ~Further(p, <<1, 0>>) /\ ~Nearer(p, <<1, 0>>) /\ (Longer(p, <<1, 0>>) <=> x >= 0)
      /\ ~Further(p, <<-1, 0>>) /\ ~Nearer(p, <<-1, 0>>) /\ (Longer(p, <<-1, 0>>) <=> x <= 0)
  BY <1>1, Compared DEF Steps!Larger, Steps!Abs
<1>9. ~Nearer(p, <<-1, t>>) /\ ~Nearer(p, <<1, t>>)
  BY <1>1, Compared DEF Steps!Larger, Steps!Abs
<1>10. Steps!Cardinals = {<<1, 0>>, <<-1, 0>>} \cup {<<0, t>>, <<0, -t>>}
  BY <1>1, StepFacts
<1> HIDE DEF p
<1>11. QED
  BY <1>2, <1>3, <1>5, <1>6, <1>7, <1>8, <1>9, <1>10 DEF Aside, p

LEMMA AsideInRow ==
  ASSUME NEW x \in Int, NEW y \in Int, Steps!Abs(x) > Steps!Abs(y)
  PROVE  LET p == <<x, y>>
         IN Aside(p, Straight(p), FirstSide(p), Steps!Minus(FirstSide(p)))
<1> DEFINE p == <<x, y>>
           s == Steps!Sign(x)
<1>1. /\ s \in {-1, 1} /\ ~(Steps!Abs(y) > Steps!Abs(x))
      /\ (s = 1 => x > 0) /\ (s = -1 => x < 0)
  BY DEF Steps!Abs, Steps!Sign
<1>2. /\ Straight(p) = <<s, 0>> /\ FirstSide(p) = <<0, s>> /\ Steps!Minus(FirstSide(p)) = <<0, -s>>
      /\ Steps!Minus(Straight(p)) = <<-s, 0>>
      /\ Steps!Plus(<<s, 0>>, <<0, s>>) = <<s, s>> /\ Steps!Plus(<<s, 0>>, <<0, -s>>) = <<s, -s>>
  <2>1. Straight(p) = <<s, 0>>
    BY <1>1 DEF Straight
  <2>2. <<s, 0>>[1] # 0 /\ <<s, 0>>[1] = s
    BY <1>1
  <2>3. FirstSide(p) = <<0, s>>
    BY <2>1, <2>2 DEF FirstSide
  <2>4. Steps!Minus(<<s, 0>>) = <<-s, 0>> /\ Steps!Minus(<<0, s>>) = <<0, -s>>
    <3>1. s \in Int
      BY <1>1
    <3> HIDE DEF s
    <3>2. QED
      BY <3>1, TurnedRound, Zenon
  <2>5. Steps!Plus(<<s, 0>>, <<0, s>>) = <<s, s>> /\ Steps!Plus(<<s, 0>>, <<0, -s>>) = <<s, -s>>
    BY <1>1 DEF Steps!Plus
  <2>6. QED
    BY <2>1, <2>3, <2>4, <2>5
<1>3. Steps!Sides(p) = {<<0, 1>>, <<0, -1>>}
  BY <1>1, StepFacts DEF Steps!Sides, Steps!Abs
<1>4. \A d \in Steps!Sides(p) : d \in Steps!Outward(p) <=> d[2] * y >= 0
  BY <1>3 DEF Steps!Outward
<1>5. /\ <<0, 1>> \in Steps!Outward(p) <=> y >= 0
      /\ <<0, -1>> \in Steps!Outward(p) <=> y <= 0
  BY <1>3, <1>4
<1> HIDE DEF s
<1>6. Further(p, <<s, 0>>) /\ Longer(p, <<s, 0>>) /\ ~Nearer(p, <<s, 0>>)
  BY <1>1, Compared DEF Steps!Larger, Steps!Abs
<1>7. ~Further(p, <<-s, 0>>) /\ ~Longer(p, <<-s, 0>>)
  BY <1>1, Compared DEF Steps!Larger, Steps!Abs
<1>8. /\ ~Further(p, <<0, 1>>) /\ ~Nearer(p, <<0, 1>>) /\ (Longer(p, <<0, 1>>) <=> y >= 0)
      /\ ~Further(p, <<0, -1>>) /\ ~Nearer(p, <<0, -1>>) /\ (Longer(p, <<0, -1>>) <=> y <= 0)
  BY <1>1, Compared DEF Steps!Larger, Steps!Abs
<1>9. ~Nearer(p, <<s, s>>) /\ ~Nearer(p, <<s, -s>>)
  BY <1>1, Compared DEF Steps!Larger, Steps!Abs
<1>10. Steps!Cardinals = {<<0, 1>>, <<0, -1>>} \cup {<<s, 0>>, <<-s, 0>>}
  BY <1>1, StepFacts
<1>11. <<0, s>> \in Steps!Sides(p) /\ <<0, -s>> \in Steps!Sides(p)
  BY <1>1, <1>3
<1> HIDE DEF p
<1>12. QED
  BY <1>2, <1>3, <1>5, <1>6, <1>7, <1>8, <1>9, <1>10, <1>11 DEF Aside, p

LEMMA OffTheDiagonal ==
  ASSUME NEW x \in Int, NEW y \in Int, Steps!Abs(x) # Steps!Abs(y),
         NEW open \in SUBSET Steps!Steps, NEW flee \in BOOLEAN
  PROVE  Suits(Steps!DistanceStep(open, <<x, y>>, flee), open, <<x, y>>, flee)
<1> DEFINE p == <<x, y>>
           away == Straight(p)
           first == FirstSide(p)
           second == Steps!Minus(first)
           diagonals == {Steps!Plus(away, first), Steps!Plus(away, second)}
           oneOpen == open \cap diagonals # {}
           steps == Steps!DistanceStep(open, p, flee)
           ways == open \cap Steps!Cardinals
           third == Steps!If(flee, open \cap Steps!Sides(p))
           fourth == Steps!OpenPair(open, diagonals)
           fifth == Steps!If(oneOpen, open \cap {first})
           sixth == open \cap {Steps!Plus(away, first)}
           seventh == Steps!If(oneOpen, open \cap {second})
           eighth == open \cap {Steps!Plus(away, second)}
           ninth == Steps!If(flee, open \cap {Steps!Minus(away)})
<1>1. Aside(p, away, first, second)
  <2>1. Steps!Abs(x) > Steps!Abs(y) \/ Steps!Abs(y) > Steps!Abs(x)
    BY DEF Steps!Abs
  <2>2. QED
    BY <2>1, AsideInColumn, AsideInRow
<1>2. p # <<0, 0>> /\ ~Steps!Diagonal(p)
  BY DEF Steps!Diagonal
<1>3. steps = Steps!StraightStep(open, p, flee)
  BY <1>2 DEF Steps!DistanceStep
<1>4. Steps!StraightStep(open, p, flee) =
        Steps!FirstOf(<<open \cap {away}, open \cap Steps!Outward(p), third, fourth, fifth, sixth,
                  seventh, eighth, ninth>>)
  BY DEF Steps!StraightStep, Straight, FirstSide
<1>5. /\ third = (IF flee THEN open \cap Steps!Sides(p) ELSE {})
      /\ ninth = (IF flee THEN open \cap {Steps!Minus(away)} ELSE {})
      /\ fourth \subseteq open \cap diagonals
      /\ fifth \subseteq open \cap {first} /\ seventh \subseteq open \cap {second}
      /\ sixth \subseteq open \cap diagonals /\ eighth \subseteq open \cap diagonals
  BY DEF Steps!If, Steps!OpenPair
<1>6. Steps!None \notin open /\ ~Nearer(p, Steps!None)
  BY StepFacts, NoStep
<1>7. steps = Steps!FirstOf(<<open \cap {away}, open \cap Steps!Outward(p), third, fourth, fifth,
        sixth,
                        seventh, eighth, ninth>>)
  BY <1>3, <1>4
<1> SUFFICES Suits(steps, open, p, flee)
  OBVIOUS
<1> DEFINE back == Steps!Minus(away)
<1>8. \A d \in diagonals : ~Nearer(p, d)
  BY <1>1 DEF Aside
<1>9. Steps!Outward(p) \subseteq Steps!Sides(p)
  BY DEF Steps!Outward
<1>10. /\ Steps!Cardinals = Steps!Sides(p) \cup {away, back}
       /\ Further(p, away) /\ Longer(p, away) /\ ~Nearer(p, away)
       /\ ~Further(p, back) /\ ~Longer(p, back)
       /\ \A d \in Steps!Sides(p) : ~Further(p, d) /\ ~Nearer(p, d)
            /\ (Longer(p, d) <=> d \in Steps!Outward(p))
       /\ first \in Steps!Sides(p) /\ second \in Steps!Sides(p)
  BY <1>1 DEF Aside
<1>11. ninth = (IF flee THEN open \cap {back} ELSE {})
  BY <1>5
<1> HIDE DEF p, away, first, second, back, diagonals, steps, third, fourth, fifth, sixth,
             seventh, eighth, ninth
<1>12. \/ open \cap {away} # {} /\ steps = open \cap {away}
       \/ open \cap {away} = {} /\ open \cap Steps!Outward(p) # {}
            /\ steps = open \cap Steps!Outward(p)
       \/ open \cap {away} = {} /\ open \cap Steps!Outward(p) = {} /\ steps = third
       \/ /\ open \cap {away} = {} /\ open \cap Steps!Outward(p) = {} /\ third = {}
          /\ steps \in {fourth, fifth, sixth, seventh, eighth, ninth}
       \/ /\ open \cap {away} = {} /\ open \cap Steps!Outward(p) = {} /\ third = {}
          /\ ninth = {} /\ steps = {Steps!None}
  BY <1>7, FirstOfNine
<1>13. CASE open \cap {away} # {} /\ steps = open \cap {away}
  BY <1>6, <1>10, <1>13 DEF Suits
<1>14. CASE open \cap {away} = {} /\ open \cap Steps!Outward(p) # {}
              /\ steps = open \cap Steps!Outward(p)
  <2>1. \A d \in ways : ~Further(p, d)
    BY <1>10, <1>14
  <2>2. \A d \in steps : Longer(p, d) /\ ~Nearer(p, d)
    BY <1>9, <1>10, <1>14
  <2>3. QED
    BY <1>6, <1>14, <2>1, <2>2 DEF Suits
<1>15. CASE open \cap {away} = {} /\ open \cap Steps!Outward(p) = {}
  <2>1. /\ \A d \in ways : ~Further(p, d) /\ ~Longer(p, d)
        /\ ways \subseteq Steps!Sides(p) \cup {back}
    BY <1>10, <1>15
  <2>2. ASSUME steps \ {Steps!None} \subseteq open,
               \A d \in steps : Nearer(p, d) => flee /\ ways = {d},
               Steps!None \in steps => ~flee \/ ways = {}
        PROVE  Suits(steps, open, p, flee)
    BY <2>1, <2>2 DEF Suits
  <2>3. CASE steps = third
    BY <1>5, <1>6, <1>10, <2>2, <2>3
  <2>4. CASE third = {} /\ steps \in {fourth, fifth, sixth, seventh, eighth}
    <3>1. \A d \in steps : d \in open /\ ~Nearer(p, d)
      BY <1>5, <1>8, <1>10, <2>4
    <3>2. QED
      BY <1>6, <2>2, <3>1
  <2>5. CASE third = {} /\ steps = ninth
    <3>1. \A d \in steps : flee /\ d = back /\ d \in open
      BY <1>11, <2>5
    <3>2. flee => open \cap Steps!Sides(p) = {}
      BY <1>5, <2>5
    <3>3. back \in Steps!Cardinals
      BY <1>10
    <3>4. \A d \in steps : flee /\ ways = {d}
      BY <2>1, <3>1, <3>2, <3>3
    <3>5. QED
      BY <1>6, <2>2, <3>1, <3>4
  <2>6. CASE third = {} /\ ninth = {} /\ steps = {Steps!None}
    <3>1. flee => ways = {}
      BY <1>5, <1>11, <2>1, <2>6
    <3>2. QED
      BY <1>6, <2>2, <2>6, <3>1
  <2>7. QED
    BY <1>12, <1>15, <2>3, <2>4, <2>5, <2>6
<1>16. QED
  BY <1>12, <1>13, <1>14, <1>15

(* Wherever the target is.                                                   *)
LEMMA AlwaysAway == \A p \in Int \X Int : Steps!GetsAway(p)
<1> SUFFICES ASSUME NEW x \in Int, NEW y \in Int PROVE Steps!GetsAway(<<x, y>>)
  OBVIOUS
<1>1. ASSUME NEW open \in SUBSET Steps!Steps, NEW flee \in BOOLEAN
      PROVE  Suits(Steps!DistanceStep(open, <<x, y>>, flee), open, <<x, y>>, flee)
  <2>1. Steps!Abs(x) # Steps!Abs(y) \/ (Steps!Abs(x) = Steps!Abs(y) /\ x # 0) \/ (x = 0 /\ y = 0)
    BY DEF Steps!Abs
  <2>2. QED
    BY <2>1, OnTheSpot, OnADiagonal, OffTheDiagonal
<1>2. QED
  BY <1>1, Judged

-----------------------------------------------------------------------------
(* The monster. *)

LEMMA StepsAreSteps ==
  ASSUME offset \in Steps!Offsets, NEW flee \in BOOLEAN
  PROVE  Steps!DistanceSteps(flee) \subseteq Steps!Steps \cup {Steps!None}
<1>1. offset \in Int \X Int
  BY FlightAssumption DEF Steps!Offsets
<1>2. \A open \in SUBSET Steps!Steps : Steps!DistanceStep(open, offset,
        flee) \ {Steps!None} \subseteq open
  BY <1>1, AlwaysAway DEF Steps!GetsAway
<1>3. QED
  BY <1>2 DEF Steps!DistanceSteps

FlightIInv == Steps!TypeOK

LEMMA FlightInitially == Steps!Init => FlightIInv
<1>1. <<Reach, Reach>> \in Steps!Offsets
  BY FlightAssumption DEF Steps!Offsets
<1>2. 0 \in 0..2 /\ FALSE \in BOOLEAN
  OBVIOUS
<1>3. Steps!None \in Steps!Steps \cup {Steps!None}
  OBVIOUS
<1>4. QED
  BY <1>1, <1>2, <1>3, Zenon DEF Steps!Init, FlightIInv, Steps!TypeOK

LEMMA FlightStep ==
  ASSUME FlightIInv, [Steps!Next]_(Steps!vars)
  PROVE  FlightIInv'
<1> USE DEF FlightIInv, Steps!TypeOK
<1>1. Steps!Slowed \in 0..2
  BY DEF Steps!Slowed
<1>2. CASE Steps!Flee
  <2>1. PICK d \in Steps!DistanceSteps(TRUE) : Steps!Told(d)
    BY <1>2 DEF Steps!Flee
  <2>2. d \in Steps!Steps \cup {Steps!None}
    BY StepsAreSteps
  <2>3. QED
    BY <1>1, <1>2, <2>1, <2>2 DEF Steps!Flee, Steps!Told
<1>3. CASE Steps!KeepDistance
  <2>1. UNCHANGED <<offset, fleeing>>
    BY <1>3 DEF Steps!KeepDistance
  <2>2. stepDuration' \in {stepDuration, Steps!Slowed}
    BY <1>3 DEF Steps!KeepDistance
  <2>3. \/ Steps!Search \/ UNCHANGED <<listWalkDir, hasFollowPath>>
        \/ \E d \in Steps!DistanceSteps(FALSE) : Steps!Told(d)
    BY <1>3 DEF Steps!KeepDistance
  <2>4. listWalkDir' \in Steps!Steps \cup {Steps!None} /\ hasFollowPath' \in BOOLEAN
    BY <2>3, StepsAreSteps DEF Steps!Search, Steps!Told
  <2>5. QED
    BY <1>1, <2>1, <2>2, <2>4
<1>4. CASE Steps!Walk
  BY <1>4 DEF Steps!Walk
<1>5. CASE Steps!TargetWalks
  BY <1>5 DEF Steps!TargetWalks
<1>6. CASE Steps!HealthChanges
  BY <1>6 DEF Steps!HealthChanges
<1>7. CASE UNCHANGED Steps!vars
  BY <1>7 DEF Steps!vars
<1>8. QED
  BY <1>2, <1>3, <1>4, <1>5, <1>6, <1>7 DEF Steps!Next

LEMMA FlightKept == FlightIInv => Steps!FlightInv
<1>1. Steps!Offsets \subseteq Int \X Int
  BY FlightAssumption DEF Steps!Offsets
<1>2. QED
  BY <1>1, AlwaysAway DEF FlightIInv, Steps!TypeOK, Steps!FlightInv, Steps!SafeOffsets

-----------------------------------------------------------------------------
ItemSet ==
  [kind : Kinds, where : {"free", "world", "removed"}, refs : Nat,
   decaying : BOOLEAN, duration : Nat \cup {Time!NoTime}, soon : Nat,
   listed : [Time!Buckets -> Nat], releases : Nat, due : Nat, age : Nat,
   timely : BOOLEAN, twice : BOOLEAN, stuck : BOOLEAN]

(* What is kept of an item that waits in the lists once: in a bucket, or    *)
(* taken out of it for a visit, how late it is against the time it was      *)
(* given, counted to the next visit.                                        *)
Lateness(i, wait) == Time!Interval * (i.age + wait) - (i.due - i.duration)
OnTime(i, wait) ==
  /\ i.duration > 0
  /\ IF i.duration >= Time!Round THEN Lateness(i, wait) \in {8, 10}
     ELSE wait \in {0, 1} /\ Lateness(i, wait) \in {2, 4}
WaitFor(b, bucket) == ((b + 3 - bucket) % 4) + 1

ItemTimed(i, left, bucket) ==
  ~i.twice /\ i.duration # Time!NoTime /\ i.where = "world" =>
    /\ left = 1 => OnTime(i, 0)
    /\ i.soon = 1 => i.duration > 0 /\ i.due = i.duration /\ i.age \in {0, 1}
    /\ \A b \in Time!Buckets : i.listed[b] = 1 => OnTime(i, WaitFor(b, bucket))

(* An item in the middle of a task; left is the number of entries that the  *)
(* visit has taken out and not yet looked at, held that of their references  *)
(* that are still to be given up.                                           *)
ItemSound(i, left, held, bucket) ==
  /\ i \in ItemSet /\ i.where # "free" /\ i.refs > 0 /\ i.timely
  /\ i.refs = Time!Entries(i) + left + held + i.releases + (IF i.where = "world" THEN 1 ELSE 0)
  /\ Time!Entries(i) + left <= MaxEntries
  /\ ~i.twice => Time!Entries(i) + left <= 1
  /\ DecayTime[i.kind] > 0 => i.duration # Time!NoTime
  /\ ItemTimed(i, left, bucket)

ItemRuns(i, left) == i.decaying => Time!Entries(i) + left > 0 \/ i.stuck \/ i.where = "removed"

DecayIInv ==
  /\ lastBucket \in Time!Buckets
  /\ item = Time!Nothing \/ ItemSound(item, 0, 0, lastBucket)
  /\ item.decaying => Time!Entries(item) > 0 \/ item.stuck
  /\ item.soon = 1 /\ ~item.twice /\ item.duration # Time!NoTime /\ item.where = "world"
       => item.age = 0

-----------------------------------------------------------------------------
LEMMA EntryNumbers ==
  ASSUME NEW i \in ItemSet
  PROVE  /\ \A b \in Time!Buckets : i.listed[b] \in Nat /\ i.listed[b] <= Time!Listed(i)
         /\ Time!Listed(i) \in Nat /\ i.soon \in Nat /\ Time!Entries(i) \in Nat
         /\ Time!Entries(i) = i.soon + Time!Listed(i)
         /\ Time!Listed(i) = 0 => \A b \in Time!Buckets : i.listed[b] = 0
<1>1. i.listed \in [Time!Buckets -> Nat] /\ i.soon \in Nat
  BY DEF ItemSet
<1>2. i.listed[0] \in Nat /\ i.listed[1] \in Nat /\ i.listed[2] \in Nat /\ i.listed[3] \in Nat
  BY <1>1 DEF Time!Buckets
<1>3. Time!Listed(i) = i.listed[0] + i.listed[1] + i.listed[2] + i.listed[3]
  BY DEF Time!Listed
<1>4. Time!Entries(i) = i.soon + Time!Listed(i)
  BY DEF Time!Entries
<1>5. ASSUME NEW b \in Time!Buckets
      PROVE  b = 0 \/ b = 1 \/ b = 2 \/ b = 3
  BY DEF Time!Buckets
<1>6. Time!Listed(i) \in Nat /\ Time!Entries(i) \in Nat
  BY <1>1, <1>2, <1>3, <1>4
<1>7. \A b \in Time!Buckets : i.listed[b] \in Nat /\ i.listed[b] <= Time!Listed(i)
  BY <1>2, <1>3, <1>5
<1>8. Time!Listed(i) = 0 => \A b \in Time!Buckets : i.listed[b] = 0
  BY <1>6, <1>7
<1>9. QED
  BY <1>1, <1>4, <1>6, <1>7, <1>8

(* An entry more in a bucket is an entry more.                              *)
LEMMA OneEntryMore ==
  ASSUME NEW f \in [Time!Buckets -> Nat], NEW b \in Time!Buckets, NEW n \in Nat,
         NEW g \in [Time!Buckets -> Nat], g[b] = f[b] + n,
         \A c \in Time!Buckets : c # b => g[c] = f[c]
  PROVE  g[0] + g[1] + g[2] + g[3] = f[0] + f[1] + f[2] + f[3] + n
<1>1. f[0] \in Nat /\ f[1] \in Nat /\ f[2] \in Nat /\ f[3] \in Nat
  BY DEF Time!Buckets
<1>2. CASE b = 0
  BY <1>1, <1>2 DEF Time!Buckets
<1>3. CASE b = 1
  BY <1>1, <1>3 DEF Time!Buckets
<1>4. CASE b = 2
  BY <1>1, <1>4 DEF Time!Buckets
<1>5. CASE b = 3
  BY <1>1, <1>5 DEF Time!Buckets
<1>6. QED
  BY <1>2, <1>3, <1>4, <1>5 DEF Time!Buckets

LEMMA KindTimes ==
  ASSUME NEW some \in Kinds
  PROVE  /\ DecayTime[some] \in Nat /\ DecayTo[some] \in Kinds \cup {Vanish, NoDecay}
         /\ some \in StopTime => DecayTime[some] = 0
BY DecayAssumption

LEMMA PushedSound ==
  ASSUME NEW i, NEW left \in Nat, NEW held \in Nat, NEW bucket \in Time!Buckets,
         ItemSound(i, left, held, bucket),
         i.where = "world", i.duration > 0, Time!Entries(i) + left < MaxEntries,
         i.twice \/ left = 0
  PROVE  /\ ItemSound(Time!Pushed(i), left, held, bucket)
         /\ Time!Entries(Time!Pushed(i)) = Time!Entries(i) + 1
         /\ Time!Pushed(i).age = 0 /\ Time!Pushed(i).where = "world"
<1> DEFINE p == Time!Pushed(i)
<1>0. i \in ItemSet /\ MaxEntries \in Nat
  BY DecayAssumption DEF ItemSound
<1>1. /\ p.kind = i.kind /\ p.where = "world" /\ p.refs = i.refs + 1 /\ p.decaying
      /\ p.duration = i.duration /\ p.soon = i.soon + 1 /\ p.listed = i.listed
      /\ p.releases = i.releases /\ p.due = i.duration /\ p.age = 0
      /\ p.timely = i.timely /\ (p.twice <=> i.twice \/ Time!Entries(i) > 0) /\ p.stuck = i.stuck
  BY <1>0 DEF Time!Pushed, ItemSet
<1>2. i.duration \in Nat /\ i.refs \in Nat /\ i.soon \in Nat /\ i.releases \in Nat
  BY <1>0 DEF ItemSet, Time!NoTime
<1>3. p \in ItemSet
  <2> DEFINE due == i.duration
             again == i.twice \/ Time!Entries(i) > 0
  <2>1. p = [i EXCEPT !.refs = @ + 1, !.decaying = TRUE, !.soon = @ + 1,
                      !.twice = again, !.due = due, !.age = 0]
    BY <1>0 DEF Time!Pushed, ItemSet
  <2>2. due \in Nat /\ again \in BOOLEAN
    BY <1>2
  <2>3. i.refs + 1 \in Nat /\ i.soon + 1 \in Nat
    BY <1>2
  <2> HIDE DEF p, due, again
  <2>4. QED
    BY <1>0, <2>1, <2>2, <2>3 DEF ItemSet
<1>4. Time!Entries(p) = Time!Entries(i) + 1
  BY <1>0, <1>1, <1>2, EntryNumbers DEF Time!Entries, Time!Listed
<1>5. ItemTimed(p, left, bucket)
  <2> SUFFICES ASSUME ~p.twice PROVE ItemTimed(p, left, bucket)
    BY DEF ItemTimed
  <2>1. Time!Entries(i) = 0 /\ left = 0
    BY <1>0, <1>1, EntryNumbers
  <2>2. i.soon = 0 /\ Time!Listed(i) = 0
    BY <1>0, <2>1, EntryNumbers
  <2>3. \A b \in Time!Buckets : p.listed[b] = 0
    BY <1>0, <1>1, <2>2, EntryNumbers
  <2>4. QED
    BY <1>1, <1>2, <2>1, <2>3 DEF ItemTimed
<1>6. Time!Entries(i) \in Nat
  BY <1>0, EntryNumbers
<1> HIDE DEF p
<1>7. p.refs = Time!Entries(p) + left + held + p.releases + (IF p.where = "world" THEN 1 ELSE 0)
  BY <1>1, <1>2, <1>4, <1>6 DEF ItemSound
<1>8. /\ Time!Entries(p) + left <= MaxEntries
      /\ ~p.twice => Time!Entries(p) + left <= 1
  BY <1>0, <1>1, <1>4, <1>6
<1>9. /\ p.where # "free" /\ p.refs > 0 /\ p.timely
      /\ DecayTime[p.kind] > 0 => p.duration # Time!NoTime
  BY <1>1, <1>2 DEF ItemSound
<1>10. ItemSound(p, left, held, bucket)
  BY <1>3, <1>5, <1>7, <1>8, <1>9 DEF ItemSound
<1>11. QED
  BY <1>1, <1>4, <1>10 DEF p

LEMMA SetIDSound ==
  ASSUME NEW i, NEW left \in Nat, NEW held \in Nat, NEW bucket \in Time!Buckets,
         ItemSound(i, left, held, bucket),
         i.where = "world", i.twice \/ left = 0, NEW some \in Kinds
  PROVE  /\ ItemSound(Time!SetID(i, some), left, held, bucket)
         /\ Time!SetID(i, some).where = "world" /\ Time!SetID(i, some).kind = some
         /\ Time!Entries(Time!SetID(i, some)) = Time!Entries(i)
         /\ Time!SetID(i, some).decaying => i.decaying
         /\ Time!SetID(i, some).stuck = i.stuck
         /\ i.twice => Time!SetID(i, some).twice
         /\ i.kind \notin StopTime /\ DecayTime[some] > 0 => Time!SetID(i, some).duration > 0
<1> DEFINE p == Time!SetID(i, some)
           time == DecayTime[some]
           reset == time > 0 /\ (i.kind \notin StopTime \/ i.duration = Time!NoTime)
           gone == time = 0 /\ some \notin StopTime /\ DecayTo[some] = NoDecay
<1>0. i \in ItemSet /\ time \in Nat
  BY KindTimes DEF ItemSound
<1>1. /\ p.kind = some /\ p.where = i.where /\ p.refs = i.refs
      /\ p.decaying = (i.decaying /\ ~reset /\ ~gone)
      /\ p.duration = (IF reset THEN time ELSE IF gone THEN Time!NoTime ELSE i.duration)
      /\ p.soon = i.soon /\ p.listed = i.listed /\ p.releases = i.releases
      /\ p.due = i.due /\ p.age = i.age /\ p.timely = i.timely
      /\ (p.twice <=> i.twice \/ (reset /\ Time!Entries(i) > 0)) /\ p.stuck = i.stuck
      /\ p \in ItemSet
  <2> HIDE DEF reset, gone, time
  <2>1. p = [i EXCEPT !.kind = some, !.decaying = @ /\ ~reset /\ ~gone,
                          !.duration = IF reset THEN time ELSE IF gone THEN Time!NoTime ELSE @,
                          !.twice = @ \/ (reset /\ Time!Entries(i) > 0)]
    BY DEF Time!SetID, reset, gone, time
  <2>2. (IF reset THEN time ELSE IF gone THEN Time!NoTime ELSE i.duration)
          \in Nat \cup {Time!NoTime}
    BY <1>0 DEF ItemSet
  <2> HIDE DEF p
  <2>3. QED
    BY <1>0, <2>1, <2>2 DEF ItemSet
<1>2. Time!Entries(p) = Time!Entries(i)
  BY <1>1 DEF Time!Entries, Time!Listed
<1>3. i.kind \in Kinds /\ i.duration \in Nat \cup {Time!NoTime}
  BY <1>0 DEF ItemSet
<1>4. ItemTimed(p, left, bucket)
  <2> SUFFICES ASSUME ~p.twice, p.duration # Time!NoTime PROVE ItemTimed(p, left, bucket)
    BY DEF ItemTimed
  <2>1. CASE reset
    <3>1. Time!Entries(i) = 0 /\ left = 0
      BY <1>0, <1>1, <2>1, EntryNumbers
    <3>2. p.soon = 0 /\ \A b \in Time!Buckets : p.listed[b] = 0
      BY <1>0, <1>1, <3>1, EntryNumbers
    <3>3. QED
      BY <3>1, <3>2 DEF ItemTimed
  <2>2. CASE ~reset
    <3>1. p.duration = i.duration /\ ~i.twice
      BY <1>1, <2>2
    <3>2. ASSUME NEW wait PROVE OnTime(p, wait) <=> OnTime(i, wait)
      BY <1>1, <3>1 DEF OnTime, Lateness
    <3>3. QED
      BY <1>1, <3>1, <3>2 DEF ItemTimed, ItemSound
  <2>3. QED
    BY <2>1, <2>2
<1>5. p.kind \notin {} /\ (DecayTime[p.kind] > 0 => p.duration # Time!NoTime)
  BY <1>0, <1>1, <1>3, KindTimes DEF ItemSound, Time!NoTime
<1>6. ItemSound(p, left, held, bucket)
  BY <1>0, <1>1, <1>2, <1>4, <1>5 DEF ItemSound
<1>7. i.kind \notin StopTime /\ DecayTime[some] > 0 => p.duration > 0
  BY <1>0, <1>1
<1>8. QED
  BY <1>1, <1>2, <1>6, <1>7

LEMMA RemovedSound ==
  ASSUME NEW i, NEW left \in Nat, NEW held \in Nat, NEW bucket \in Time!Buckets,
         ItemSound(i, left, held, bucket), i.where = "world"
  PROVE  /\ ItemSound(Time!Removed(i), left, held, bucket)
         /\ Time!Removed(i).where = "removed" /\ Time!Removed(i).age = i.age
         /\ Time!Removed(i).decaying = i.decaying
<1> DEFINE p == Time!Removed(i)
<1>0. i \in ItemSet /\ i.releases \in Nat
  BY DEF ItemSound, ItemSet
<1>1. /\ p.kind = i.kind /\ p.where = "removed" /\ p.refs = i.refs /\ p.decaying = i.decaying
      /\ p.duration = i.duration /\ p.soon = i.soon /\ p.listed = i.listed
      /\ p.releases = i.releases + 1 /\ p.age = i.age /\ p.timely = i.timely
      /\ p.twice = i.twice
  BY <1>0 DEF Time!Removed, ItemSet
<1>1a. p \in ItemSet
  <2>1. p = [i EXCEPT !.where = "removed", !.releases = @ + 1] /\ i.releases + 1 \in Nat
    BY <1>0 DEF Time!Removed
  <2> HIDE DEF p
  <2>2. QED
    BY <1>0, <2>1 DEF ItemSet
<1>2. Time!Entries(p) = Time!Entries(i)
  BY <1>1 DEF Time!Entries, Time!Listed
<1>3. i.refs \in Nat /\ Time!Entries(i) \in Nat
  BY <1>0, EntryNumbers DEF ItemSet
<1>4. ItemTimed(p, left, bucket)
  BY <1>1 DEF ItemTimed
<1>5. QED
  BY <1>0, <1>1, <1>1a, <1>2, <1>3, <1>4 DEF ItemSound

(* What an item decays to, whatever it was due.                             *)
LEMMA DecaysSound ==
  ASSUME NEW i, NEW left \in Nat, NEW held \in Nat, NEW bucket \in Time!Buckets,
         ItemSound(i, left, held, bucket), Time!CanDecay(i),
         i.twice \/ Time!Entries(i) + left = 0,
         i.twice \/ i.age * Time!Interval - i.due \in Time!Early..Time!Late,
         Time!Entries(i) + left < MaxEntries,
         NEW x \in Time!Decays(i)
  PROVE  /\ ItemSound(x, left, held, bucket) /\ ItemRuns(x, left)
         /\ x.age \in {0, i.age}
         /\ ~i.decaying => (x.decaying => Time!Entries(x) > 0 \/ x.stuck)
<1> DEFINE timed == [i EXCEPT !.timely = i.twice
             \/ i.age * Time!Interval - i.due \in Time!Early..Time!Late]
           some == DecayTo[i.kind]
<1>0. i \in ItemSet /\ i.where = "world" /\ i.kind \in Kinds /\ DecayTime[i.kind] # 0
      /\ some # NoDecay
  BY DEF ItemSound, Time!CanDecay, ItemSet
<1>1. /\ timed.kind = i.kind /\ timed.where = i.where /\ timed.refs = i.refs
      /\ timed.decaying = i.decaying /\ timed.duration = i.duration /\ timed.soon = i.soon
      /\ timed.listed = i.listed /\ timed.releases = i.releases /\ timed.due = i.due
      /\ timed.age = i.age /\ timed.timely /\ timed.twice = i.twice
      /\ timed.stuck = i.stuck /\ timed \in ItemSet
  BY <1>0 DEF ItemSet
<1>2. ItemSound(timed, left, held, bucket) /\ Time!Entries(timed) = Time!Entries(i)
  <2>1. Time!Entries(timed) = Time!Entries(i)
    BY <1>1 DEF Time!Entries, Time!Listed
  <2>2. ASSUME NEW wait PROVE OnTime(timed, wait) <=> OnTime(i, wait)
    BY <1>1 DEF OnTime, Lateness
  <2>3. ItemTimed(timed, left, bucket)
    BY <1>1, <2>2 DEF ItemTimed, ItemSound
  <2>4. QED
    BY <1>1, <2>1, <2>3 DEF ItemSound
<1> HIDE DEF timed
<1>3. Time!Entries(i) \in Nat /\ MaxEntries \in Nat
  BY <1>0, EntryNumbers, DecayAssumption
<1>4. CASE x = Time!Removed(timed)
  BY <1>0, <1>1, <1>2, <1>4, RemovedSound DEF ItemRuns
<1>5. CASE x = [timed EXCEPT !.stuck = TRUE]
  <2>1. /\ x.kind = timed.kind /\ x.where = timed.where /\ x.refs = timed.refs
        /\ x.duration = timed.duration /\ x.soon = timed.soon
        /\ x.listed = timed.listed /\ x.releases = timed.releases /\ x.due = timed.due
        /\ x.age = timed.age /\ x.timely = timed.timely /\ x.twice = timed.twice
        /\ x.stuck /\ x \in ItemSet
    BY <1>1, <1>5 DEF ItemSet
  <2>2. Time!Entries(x) = Time!Entries(timed)
    BY <2>1 DEF Time!Entries, Time!Listed
  <2>3. ASSUME NEW wait PROVE OnTime(x, wait) <=> OnTime(timed, wait)
    BY <2>1 DEF OnTime, Lateness
  <2>4. ItemTimed(x, left, bucket)
    BY <1>2, <2>1, <2>3 DEF ItemTimed, ItemSound
  <2>5. QED
    BY <1>1, <1>2, <2>1, <2>2, <2>4 DEF ItemSound, ItemRuns
<1>6. CASE /\ some # Vanish
           /\ x = [Time!Restarted(Time!SetID(timed, some)) EXCEPT
                     !.stuck = @ \/ (i.decaying /\ Time!Lingers(some))]
  <2> DEFINE s == Time!SetID(timed, some)
             r == Time!Restarted(s)
  <2>0. some \in Kinds /\ i.kind \notin StopTime /\ DecayTime[some] \in Nat
    BY <1>0, <1>6, KindTimes
  <2>1. /\ ItemSound(s, left, held, bucket) /\ s.where = "world" /\ s.kind = some
        /\ Time!Entries(s) = Time!Entries(i) /\ (s.decaying => i.decaying)
        /\ (i.twice => s.twice) /\ (DecayTime[some] > 0 => s.duration > 0)
        /\ s.age = i.age
    <3>1. timed.twice \/ left = 0
      BY <1>1, <1>3
    <3>2. s.age = timed.age
      BY <1>1 DEF Time!SetID, ItemSet
    <3>3. QED
      BY <1>0, <1>1, <1>2, <2>0, <3>1, <3>2, SetIDSound
  <2>2. s.decaying => Time!Lingers(some) /\ i.decaying
    <3>1. s.decaying <=> /\ i.decaying
                         /\ ~(DecayTime[some] > 0
                              /\ (i.kind \notin StopTime \/ i.duration = Time!NoTime))
                         /\ ~(DecayTime[some] = 0 /\ some \notin StopTime
                              /\ DecayTo[some] = NoDecay)
      BY <1>1 DEF Time!SetID, ItemSet
    <3>2. QED
      BY <2>0, <3>1 DEF Time!Lingers
  <2>3. /\ ItemSound(r, left, held, bucket) /\ r.age \in {0, i.age}
        /\ r.decaying => Time!Entries(r) > 0 \/ (Time!Lingers(some) /\ i.decaying)
    <3>1. CASE Time!CanDecay(s) /\ ~s.decaying
      <4>1. r = Time!Pushed(s)
        BY <3>1 DEF Time!Restarted
      <4>2. DecayTime[some] > 0
        BY <2>0, <2>1, <3>1 DEF Time!CanDecay
      <4>3. s.twice \/ left = 0
        BY <1>3, <2>1
      <4>4. QED
        BY <1>3, <2>1, <4>1, <4>2, <4>3, PushedSound
    <3>2. CASE ~(Time!CanDecay(s) /\ ~s.decaying)
      BY <2>1, <2>2, <3>2 DEF Time!Restarted
    <3>3. QED
      BY <3>1, <3>2
  <2> HIDE DEF r, s
  <2>4. /\ x.kind = r.kind /\ x.where = r.where /\ x.refs = r.refs
        /\ x.duration = r.duration /\ x.soon = r.soon /\ x.decaying = r.decaying
        /\ x.listed = r.listed /\ x.releases = r.releases /\ x.due = r.due
        /\ x.age = r.age /\ x.timely = r.timely /\ x.twice = r.twice
        /\ (x.stuck <=> r.stuck \/ (i.decaying /\ Time!Lingers(some)))
    <3> DEFINE left2 == i.decaying /\ Time!Lingers(some)
    <3>1. r \in ItemSet /\ x = [r EXCEPT !.stuck = @ \/ left2]
      BY <1>6, <2>3 DEF ItemSound, r, s
    <3> HIDE DEF left2
    <3>2. QED
      BY <3>1 DEF ItemSet, left2
  <2>4a. x \in ItemSet
    <3> DEFINE stuck == r.stuck \/ (i.decaying /\ Time!Lingers(some))
    <3>1. r \in ItemSet /\ x = [r EXCEPT !.stuck = stuck] /\ stuck \in BOOLEAN
      BY <1>6, <2>3 DEF ItemSound, r, s, ItemSet
    <3> HIDE DEF stuck
    <3>2. QED
      BY <3>1 DEF ItemSet
  <2>5. Time!Entries(x) = Time!Entries(r)
    BY <2>4 DEF Time!Entries, Time!Listed
  <2>6. ASSUME NEW wait PROVE OnTime(x, wait) <=> OnTime(r, wait)
    BY <2>4 DEF OnTime, Lateness
  <2>7. ItemTimed(x, left, bucket)
    BY <2>3, <2>4, <2>6 DEF ItemTimed, ItemSound
  <2>8. ItemSound(x, left, held, bucket)
    BY <2>3, <2>4, <2>4a, <2>5, <2>7 DEF ItemSound
  <2>9. Time!Entries(r) \in Nat
    BY <2>3, EntryNumbers DEF ItemSound
  <2>10. QED
    BY <2>3, <2>4, <2>5, <2>8, <2>9 DEF ItemRuns
<1>7. QED
  BY <1>4, <1>5, <1>6 DEF Time!Decays, timed

-----------------------------------------------------------------------------
(* startDecay, of an item of the world. *)
LEMMA StartDecaySound ==
  ASSUME NEW i, NEW bucket \in Time!Buckets,
         ItemSound(i, 0, 0, bucket), i.where = "world",
         i.decaying => Time!Entries(i) > 0 \/ i.stuck, Time!Entries(i) < MaxEntries,
         NEW x \in Time!StartDecay(i)
  PROVE  /\ ItemSound(x, 0, 0, bucket) /\ (x = i \/ x.age = 0)
         /\ x.decaying => Time!Entries(x) > 0 \/ x.stuck
<1>0. i \in ItemSet /\ Time!Entries(i) \in Nat /\ MaxEntries \in Nat
        /\ i.duration \in Nat \cup {Time!NoTime}
  <2>1. i \in ItemSet
    BY DEF ItemSound
  <2>2. QED
    BY <2>1, EntryNumbers, DecayAssumption DEF ItemSet
<1>1. CASE ~Time!CanDecay(i) \/ i.decaying
  BY <1>1 DEF Time!StartDecay
<1>2. CASE Time!CanDecay(i) /\ ~i.decaying /\ i.duration > 0
  BY <1>0, <1>2, PushedSound DEF Time!StartDecay
<1>3. CASE Time!CanDecay(i) /\ ~i.decaying /\ ~(i.duration > 0)
  <2> DEFINE j == [i EXCEPT !.age = 0, !.due = 0]
  <2>1. /\ j.kind = i.kind /\ j.where = i.where /\ j.refs = i.refs
        /\ j.decaying = i.decaying /\ j.duration = i.duration /\ j.soon = i.soon
        /\ j.listed = i.listed /\ j.releases = i.releases /\ j.due = 0
        /\ j.age = 0 /\ j.timely = i.timely /\ j.twice = i.twice
        /\ j.stuck = i.stuck /\ j \in ItemSet
    BY <1>0 DEF ItemSet
  <2>2. x \in Time!Decays(j)
    BY <1>3 DEF Time!StartDecay
  <2>3. Time!Entries(j) = Time!Entries(i) /\ Time!CanDecay(j)
    BY <1>3, <2>1 DEF Time!Entries, Time!Listed, Time!CanDecay
  <2>4. i.twice \/ Time!Entries(i) = 0
    <3> SUFFICES ASSUME ~i.twice, Time!Entries(i) # 0 PROVE FALSE
      OBVIOUS
    <3>1. Time!Entries(i) = 1 /\ i.duration # Time!NoTime
      <4>1. DecayTime[i.kind] > 0
        BY <1>0, <1>3, KindTimes DEF Time!CanDecay, ItemSet
      <4>2. QED
        BY <1>0, <4>1 DEF ItemSound
    <3>2. i.soon = 1 \/ \E b \in Time!Buckets : i.listed[b] = 1
      <4>1. i.soon \in Nat /\ Time!Listed(i) \in Nat /\ i.soon + Time!Listed(i) = 1
        BY <1>0, <3>1, EntryNumbers
      <4>2. CASE Time!Listed(i) = 1
        <5>1. i.listed[0] \in Nat /\ i.listed[1] \in Nat /\ i.listed[2] \in Nat
                /\ i.listed[3] \in Nat
          BY <1>0 DEF ItemSet, Time!Buckets
        <5>2. i.listed[0] + i.listed[1] + i.listed[2] + i.listed[3] = 1
          BY <4>2 DEF Time!Listed
        <5>3. ASSUME NEW k \in Nat, NEW l \in Nat, NEW m \in Nat, NEW n \in Nat, k + l + m + n = 1
              PROVE  k = 1 \/ l = 1 \/ m = 1 \/ n = 1
          BY <5>3
        <5>4. i.listed[0] = 1 \/ i.listed[1] = 1 \/ i.listed[2] = 1 \/ i.listed[3] = 1
          BY <5>1, <5>2, <5>3
        <5>5. QED
          BY <5>4 DEF Time!Buckets
      <4>3. QED
        BY <4>1, <4>2
    <3>3. i.duration > 0
      BY <3>1, <3>2 DEF ItemSound, ItemTimed, OnTime
    <3>4. QED
      BY <1>3, <3>3
  <2>5. ItemSound(j, 0, 0, bucket)
    <3>1. ItemTimed(j, 0, bucket)
      <4> SUFFICES ASSUME ~j.twice PROVE ItemTimed(j, 0, bucket)
        BY DEF ItemTimed
      <4>1. Time!Entries(i) = 0
        BY <2>1, <2>4
      <4>2. j.soon = 0 /\ \A b \in Time!Buckets : j.listed[b] = 0
        BY <1>0, <2>1, <4>1, EntryNumbers
      <4>3. QED
        BY <4>2 DEF ItemTimed
    <3>2. QED
      BY <2>1, <2>3, <3>1 DEF ItemSound
  <2>6. j.age * Time!Interval - j.due \in Time!Early..Time!Late
    BY <2>1 DEF Time!Interval, Time!Early, Time!Late
  <2> HIDE DEF j
  <2>7. /\ ItemSound(x, 0, 0, bucket) /\ x.age \in {0, j.age}
        /\ ~j.decaying => (x.decaying => Time!Entries(x) > 0 \/ x.stuck)
    BY <1>0, <2>1, <2>2, <2>3, <2>4, <2>5, <2>6, DecaysSound
  <2>8. QED
    BY <1>3, <2>1, <2>7
<1>4. QED
  BY <1>1, <1>2, <1>3

-----------------------------------------------------------------------------
(* One visit of checkDecay. *)

LEMMA ReleasedSound ==
  ASSUME NEW i, NEW left \in Nat, NEW bucket \in Time!Buckets, ItemSound(i, left, 1, bucket)
  PROVE  /\ ItemSound(Time!Released(i), left, 0, bucket)
         /\ ItemRuns(i, left) => ItemRuns(Time!Released(i), left)
<1> DEFINE p == Time!Released(i)
<1>0. i \in ItemSet /\ i.releases \in Nat
  BY DEF ItemSound, ItemSet
<1>1. /\ p.kind = i.kind /\ p.where = i.where /\ p.refs = i.refs /\ p.decaying = i.decaying
      /\ p.duration = i.duration /\ p.soon = i.soon /\ p.listed = i.listed
      /\ p.releases = i.releases + 1 /\ p.due = i.due /\ p.age = i.age
      /\ p.timely = i.timely /\ p.twice = i.twice /\ p.stuck = i.stuck
  BY <1>0 DEF Time!Released, ItemSet
<1>2. p \in ItemSet
  <2>1. p = [i EXCEPT !.releases = @ + 1] /\ i.releases + 1 \in Nat
    BY <1>0 DEF Time!Released
  <2> HIDE DEF p
  <2>2. QED
    BY <1>0, <2>1 DEF ItemSet
<1>3. Time!Entries(p) = Time!Entries(i) /\ Time!Entries(i) \in Nat
  BY <1>0, <1>1, EntryNumbers DEF Time!Entries, Time!Listed
<1>4. ASSUME NEW wait PROVE OnTime(p, wait) <=> OnTime(i, wait)
  BY <1>1 DEF OnTime, Lateness
<1>5. ItemTimed(p, left, bucket)
  BY <1>1, <1>4 DEF ItemTimed, ItemSound
<1>6. QED
  BY <1>0, <1>1, <1>2, <1>3, <1>5 DEF ItemSound, ItemRuns

(* What time is left after a round, and where the entry goes then.          *)
LEMMA DecayRounds ==
  ASSUME NEW time \in Nat, NEW bucket \in Time!Buckets
  PROVE  LET left == IF time > Time!Round THEN time - Time!Round ELSE 0
             following == Time!NewBucket(bucket, left)
         IN /\ left \in Nat
            /\ WaitFor(bucket, bucket) = 4
            /\ 0 < left /\ left < Time!Round /\ following # bucket
                 => /\ time = 15 /\ left = 7 /\ following \in Time!Buckets
                    /\ WaitFor(following, bucket) = 1
            /\ left < Time!Round /\ (left = 0 \/ following = bucket) => time < 15
<1> DEFINE left == IF time > Time!Round THEN time - Time!Round ELSE 0
           following == Time!NewBucket(bucket, left)
<1>1. left \in Nat
  BY DEF Time!Round
<1>2. bucket = 0 \/ bucket = 1 \/ bucket = 2 \/ bucket = 3
  BY DEF Time!Buckets
<1>3. WaitFor(bucket, bucket) = 4
  BY <1>2 DEF WaitFor
<1>4. CASE left < 7
  <2>1. (left + 1) \div Time!Round = 0
    BY <1>1, <1>4 DEF Time!Round
  <2>2. following = bucket
    BY <1>2, <2>1 DEF Time!NewBucket
  <2>3. time < 15
    BY <1>4 DEF Time!Round
  <2>4. QED
    BY <1>1, <1>3, <2>2, <2>3
<1>5. CASE left = 7
  <2>1. (left + 1) \div Time!Round = 1
    BY <1>5 DEF Time!Round
  <2>2. following = (bucket + 1) % 4
    BY <2>1 DEF Time!NewBucket
  <2>3. following \in Time!Buckets /\ WaitFor(following, bucket) = 1 /\ following # bucket
    BY <1>2, <2>2 DEF WaitFor, Time!Buckets
  <2>4. time = 15
    BY <1>5 DEF Time!Round
  <2>5. QED
    BY <1>1, <1>3, <1>5, <2>3, <2>4
<1>6. CASE left >= 8
  BY <1>1, <1>3, <1>6 DEF Time!Round
<1>7. QED
  BY <1>1, <1>4, <1>5, <1>6

LEMMA VisitSound ==
  ASSUME NEW i, NEW ahead \in Nat, NEW bucket \in Time!Buckets,
         ItemSound(i, ahead + 1, 0, bucket), ItemRuns(i, ahead + 1),
         NEW x \in Time!Visit(i, bucket)
  PROVE  ItemSound(x, ahead, 0, bucket) /\ ItemRuns(x, ahead)
<1> DEFINE time == IF i.duration > 0 THEN i.duration ELSE 0
           left == IF time > Time!Round THEN time - Time!Round ELSE 0
           counted == [i EXCEPT !.duration = left]
           following == Time!NewBucket(bucket, left)
           to == IF left >= Time!Round THEN bucket ELSE following
<1>0. /\ i \in ItemSet /\ i.kind \in Kinds /\ Time!Entries(i) \in Nat /\ MaxEntries \in Nat
      /\ i.duration \in Nat \cup {Time!NoTime} /\ i.releases \in Nat /\ i.twice \in BOOLEAN
      /\ i.refs \in Nat
  <2>1. i \in ItemSet
    BY DEF ItemSound
  <2>2. QED
    BY <2>1, EntryNumbers, DecayAssumption DEF ItemSet
<1>1. time \in Nat /\ left \in Nat
  BY <1>0 DEF Time!NoTime, Time!Round
<1>2. i.twice \/ (ahead = 0 /\ Time!Entries(i) = 0)
  BY <1>0 DEF ItemSound
<1>3. CASE ~Time!CanDecay(i)
  <2>1. x = Time!Cancelled(i)
    BY <1>3 DEF Time!Visit
  <2>2. /\ x.kind = i.kind /\ x.where = i.where /\ x.refs = i.refs /\ ~x.decaying
        /\ x.duration = i.duration /\ x.soon = i.soon /\ x.listed = i.listed
        /\ x.releases = i.releases + 1 /\ x.timely = i.timely /\ x.twice = i.twice
    BY <1>0, <2>1 DEF Time!Cancelled, ItemSet
  <2>3. x \in ItemSet
    <3>1. x = [i EXCEPT !.decaying = FALSE, !.releases = @ + 1] /\ i.releases + 1 \in Nat
      BY <1>0, <2>1 DEF Time!Cancelled
    <3>2. QED
      BY <1>0, <3>1 DEF ItemSet
  <2>4. Time!Entries(x) = Time!Entries(i)
    BY <2>2 DEF Time!Entries, Time!Listed
  <2>5. ItemTimed(x, ahead, bucket)
    <3> SUFFICES ASSUME ~x.twice PROVE ItemTimed(x, ahead, bucket)
      BY DEF ItemTimed
    <3>1. x.soon = 0 /\ (\A b \in Time!Buckets : x.listed[b] = 0) /\ ahead = 0
      BY <1>0, <1>2, <2>2, EntryNumbers
    <3>2. QED
      BY <3>1 DEF ItemTimed
  <2>6. QED
    BY <1>0, <2>2, <2>3, <2>4, <2>5 DEF ItemSound, ItemRuns
<1>4. CASE Time!CanDecay(i)
  <2>1. /\ i.where = "world" /\ DecayTime[i.kind] > 0 /\ i.duration \in Nat
        /\ time = i.duration
    BY <1>0, <1>4, KindTimes DEF Time!CanDecay, ItemSound, Time!NoTime
  <2>2. /\ left < Time!Round /\ 0 < left /\ following # bucket
               => time = 15 /\ left = 7 /\ following \in Time!Buckets
                 /\ WaitFor(following, bucket) = 1
        /\ left < Time!Round /\ (left = 0 \/ following = bucket) => time < 15
        /\ WaitFor(bucket, bucket) = 4
    BY <1>1, DecayRounds
  <2>3. ~i.twice => OnTime(i, 0) /\ i.due \in Nat /\ i.age \in Nat
    BY <1>0, <1>2, <2>1 DEF ItemSound, ItemTimed, Time!NoTime, ItemSet
  <2>4. /\ counted.kind = i.kind /\ counted.where = i.where /\ counted.refs = i.refs
        /\ counted.decaying = i.decaying /\ counted.duration = left
        /\ counted.soon = i.soon /\ counted.listed = i.listed
        /\ counted.releases = i.releases /\ counted.due = i.due /\ counted.age = i.age
        /\ counted.timely = i.timely /\ counted.twice = i.twice
        /\ counted.stuck = i.stuck /\ counted \in ItemSet
    <3> HIDE DEF left
    <3>1. QED
      BY <1>0, <1>1 DEF ItemSet
  <2>5. CASE left > 0 /\ (left >= Time!Round \/ following # bucket)
    <3>1. x = [counted EXCEPT !.listed[to] = @ + 1] /\ to \in Time!Buckets
      BY <1>1, <1>4, <2>2, <2>5 DEF Time!Visit, Time!Round
    <3> HIDE DEF counted, to, following
    <3>2. /\ x.kind = i.kind /\ x.where = "world" /\ x.refs = i.refs
          /\ x.decaying = i.decaying /\ x.duration = left /\ x.soon = i.soon
          /\ x.listed = [i.listed EXCEPT ![to] = @ + 1]
          /\ x.releases = i.releases /\ x.due = i.due /\ x.age = i.age
          /\ x.timely = i.timely /\ x.twice = i.twice /\ x.stuck = i.stuck
      BY <2>1, <2>4, <3>1 DEF ItemSet
    <3>3. /\ x.listed \in [Time!Buckets -> Nat] /\ x.listed[to] = i.listed[to] + 1
          /\ \A c \in Time!Buckets : c # to => x.listed[c] = i.listed[c]
          /\ Time!Listed(x) = Time!Listed(i) + 1
      <4>1. i.listed \in [Time!Buckets -> Nat]
        BY <1>0 DEF ItemSet
      <4>2. x.listed = [i.listed EXCEPT ![to] = @ + 1] /\ to \in Time!Buckets /\ 1 \in Nat
        BY <3>1, <3>2
      <4>3. /\ x.listed \in [Time!Buckets -> Nat] /\ x.listed[to] = i.listed[to] + 1
            /\ \A c \in Time!Buckets : c # to => x.listed[c] = i.listed[c]
            /\ x.listed[0] + x.listed[1] + x.listed[2] + x.listed[3]
                 = i.listed[0] + i.listed[1] + i.listed[2] + i.listed[3] + 1
        <5> DEFINE f == i.listed
                   g == x.listed
        <5>1. /\ f \in [Time!Buckets -> Nat] /\ g \in [Time!Buckets -> Nat] /\ to \in Time!Buckets
              /\ g[to] = f[to] + 1 /\ \A c \in Time!Buckets : c # to => g[c] = f[c]
          BY <4>1, <4>2
        <5> HIDE DEF f, g
        <5>2. g[0] + g[1] + g[2] + g[3] = f[0] + f[1] + f[2] + f[3] + 1
          BY <5>1, OneEntryMore
        <5>3. QED
          BY <5>1, <5>2 DEF f, g
      <4>4. QED
        BY <4>3, Zenon DEF Time!Listed
    <3>4. x \in ItemSet
      <4>1. x = [counted EXCEPT !.listed = x.listed]
        BY <2>4, <3>1, <3>2 DEF ItemSet
      <4>2. QED
        BY <2>4, <3>3, <4>1 DEF ItemSet
    <3>5. Time!Entries(x) = Time!Entries(i) + 1
      BY <1>0, <3>2, <3>3, EntryNumbers DEF Time!Entries
    <3>6. ItemTimed(x, ahead, bucket)
      <4> SUFFICES ASSUME ~x.twice PROVE ItemTimed(x, ahead, bucket)
        BY DEF ItemTimed
      <4>1. ahead = 0 /\ x.soon = 0 /\ \A c \in Time!Buckets : c # to => x.listed[c] = 0
        BY <1>0, <1>2, <3>2, <3>3, EntryNumbers
      <4>2. OnTime(x, WaitFor(to, bucket))
        <5>1. /\ i.duration > 0 /\ i.due \in Nat /\ i.age \in Nat
              /\ IF i.duration >= 8 THEN 2 * i.age - (i.due - i.duration) \in {8, 10}
                 ELSE 2 * i.age - (i.due - i.duration) \in {2, 4}
          BY <2>3, <3>2 DEF OnTime, Lateness, Time!Interval, Time!Round
        <5>2. CASE left >= 8
          <6>1. to = bucket /\ WaitFor(to, bucket) = 4
            BY <2>2, <5>2 DEF to, Time!Round
          <6>2. left = i.duration - 8 /\ i.duration >= 16
            BY <2>1, <5>2 DEF Time!Round
          <6>3. x.duration = i.duration - 8 /\ x.age = i.age /\ x.due = i.due
            BY <3>2, <6>2
          <6> HIDE DEF left
          <6>4. Lateness(x, 4) = 2 * i.age - (i.due - i.duration)
            BY <2>1, <5>1, <6>3 DEF Lateness, Time!Interval
          <6>5. x.duration >= 8
            BY <2>1, <6>2, <6>3
          <6>6. Lateness(x, 4) \in {8, 10} /\ x.duration > 0
            BY <2>1, <5>1, <6>2, <6>3, <6>4
          <6>6a. OnTime(x, 4)
            BY <6>5, <6>6 DEF OnTime, Time!Round
          <6>7. QED
            BY <6>1, <6>6a
        <5>3. CASE left < 8
          <6>1. to = following /\ WaitFor(to, bucket) = 1 /\ left = 7 /\ i.duration = 15
            BY <2>1, <2>2, <2>5, <5>3 DEF to, Time!Round
          <6>2. x.duration = 7 /\ x.age = i.age /\ x.due = i.due
            BY <3>2, <6>1
          <6> HIDE DEF left
          <6>3. Lateness(x, 1) = 2 * i.age - (i.due - 15) - 6
            BY <5>1, <6>2 DEF Lateness, Time!Interval
          <6>4. OnTime(x, 1)
            BY <5>1, <6>1, <6>2, <6>3 DEF OnTime, Time!Round
          <6>5. QED
            BY <6>1, <6>4
        <5>4. QED
          BY <1>1, <5>2, <5>3
      <4>3. QED
        BY <4>1, <4>2 DEF ItemTimed
    <3>7. QED
      <4> HIDE DEF left, time
      <4>1. x.refs = Time!Entries(x) + ahead + 0 + x.releases + (IF x.where = "world" THEN 1 ELSE 0)
        BY <1>0, <2>1, <3>2, <3>5 DEF ItemSound
      <4>2. /\ Time!Entries(x) + ahead <= MaxEntries
            /\ ~x.twice => Time!Entries(x) + ahead <= 1
        BY <1>0, <1>2, <3>2, <3>5 DEF ItemSound
      <4>3. /\ x.where # "free" /\ x.refs > 0 /\ x.timely
            /\ DecayTime[x.kind] > 0 => x.duration # Time!NoTime
        BY <1>1, <3>2 DEF ItemSound, Time!NoTime
      <4>4. ItemRuns(x, ahead)
        BY <1>0, <3>5 DEF ItemRuns
      <4>5. QED
        BY <3>4, <3>6, <4>1, <4>2, <4>3, <4>4 DEF ItemSound
  <2>6. CASE ~(left > 0 /\ (left >= Time!Round \/ following # bucket))
    <3>1. PICK y \in Time!Decays(counted) : x = Time!Released(y)
      BY <1>4, <2>6 DEF Time!Visit
    <3>2. Time!Entries(counted) = Time!Entries(i) /\ Time!CanDecay(counted)
      BY <1>4, <2>4 DEF Time!Entries, Time!Listed, Time!CanDecay
    <3>3. counted.twice \/ Time!Entries(counted) + ahead = 0
      BY <1>2, <2>4, <3>2
    <3>4. counted.twice \/ counted.age * Time!Interval - counted.due \in Time!Early..Time!Late
      <4> SUFFICES ASSUME ~i.twice PROVE i.age * 2 - i.due \in -6..3
        BY <2>4 DEF Time!Interval, Time!Early, Time!Late
      <4>1. /\ i.duration > 0 /\ i.due \in Nat /\ i.age \in Nat
            /\ IF i.duration >= 8 THEN 2 * i.age - (i.due - i.duration) \in {8, 10}
               ELSE 2 * i.age - (i.due - i.duration) \in {2, 4}
        BY <2>3 DEF OnTime, Lateness, Time!Interval, Time!Round
      <4>2. i.duration < 15
        BY <1>1, <2>1, <2>2, <2>6 DEF Time!Round
      <4>3. QED
        BY <4>1, <4>2, <2>1
    <3>5. ItemSound(counted, ahead, 1, bucket)
      <4>1. ItemTimed(counted, ahead, bucket)
        <5> SUFFICES ASSUME ~counted.twice PROVE ItemTimed(counted, ahead, bucket)
          BY DEF ItemTimed
        <5>1. ahead = 0 /\ i.soon = 0 /\ \A b \in Time!Buckets : i.listed[b] = 0
          BY <1>0, <1>2, <2>4, EntryNumbers
        <5>2. QED
          BY <2>4, <5>1 DEF ItemTimed
      <4> HIDE DEF left, counted
      <4>2. QED
        BY <1>0, <1>1, <2>4, <3>2, <4>1 DEF ItemSound, Time!NoTime
    <3>6. Time!Entries(counted) + ahead < MaxEntries
      BY <1>0, <3>2 DEF ItemSound
    <3> HIDE DEF counted
    <3>7. ItemSound(y, ahead, 1, bucket) /\ ItemRuns(y, ahead)
      BY <3>1, <3>2, <3>3, <3>4, <3>5, <3>6, DecaysSound
    <3>8. QED
      BY <3>1, <3>7, ReleasedSound
  <2>7. QED
    BY <2>5, <2>6
<1>5. QED
  BY <1>3, <1>4

-----------------------------------------------------------------------------
(* cleanup. *)

LEMMA DecayWaits ==
  ASSUME NEW b \in Time!Buckets, NEW c \in Time!Buckets
  PROVE  /\ WaitFor(b, b) = 4 /\ (b + 1) % 4 \in Time!Buckets /\ WaitFor((b + 1) % 4, b) = 1
         /\ c # (b + 1) % 4 => /\ WaitFor(c, (b + 1) % 4) \in 1..3
                               /\ WaitFor(c, b) = WaitFor(c, (b + 1) % 4) + 1
<1>1. c = 0 \/ c = 1 \/ c = 2 \/ c = 3
  BY DEF Time!Buckets
<1>2. CASE b = 0
  BY <1>1, <1>2 DEF WaitFor, Time!Buckets
<1>3. CASE b = 1
  BY <1>1, <1>3 DEF WaitFor, Time!Buckets
<1>4. CASE b = 2
  BY <1>1, <1>4 DEF WaitFor, Time!Buckets
<1>5. CASE b = 3
  BY <1>1, <1>5 DEF WaitFor, Time!Buckets
<1>6. QED
  BY <1>2, <1>3, <1>4, <1>5 DEF Time!Buckets

LEMMA FirstWait ==
  ASSUME NEW left \in Nat, lastBucket' \in Time!Buckets
  PROVE  /\ Time!FirstBucket(left) \in Time!Buckets
         /\ left >= Time!Round => WaitFor(Time!FirstBucket(left), lastBucket') = 4
         /\ left < Time!Round => WaitFor(Time!FirstBucket(left), lastBucket') = 1
<1>1. Time!FirstBucket(left) = IF left >= Time!Round THEN lastBucket' ELSE (lastBucket' + 1) % 4
  BY DEF Time!FirstBucket
<1>2. /\ WaitFor(lastBucket', lastBucket') = 4 /\ (lastBucket' + 1) % 4 \in Time!Buckets
      /\ WaitFor((lastBucket' + 1) % 4, lastBucket') = 1
  BY DecayWaits
<1>3. left >= Time!Round <=> ~(left < Time!Round)
  BY DEF Time!Round
<1>4. QED
  BY <1>1, <1>2, <1>3

LEMMA CleanedUpSound ==
  ASSUME NEW i, lastBucket' \in Time!Buckets, ItemSound(i, 0, 0, lastBucket'), ItemRuns(i, 0)
  PROVE  \/ Time!CleanedUp(i) = Time!Nothing
         \/ /\ ItemSound(Time!CleanedUp(i), 0, 0, lastBucket')
            /\ Time!CleanedUp(i).decaying
                 => Time!Entries(Time!CleanedUp(i)) > 0 \/ Time!CleanedUp(i).stuck
            /\ Time!CleanedUp(i).soon = 0
<1> DEFINE remaining == i.refs - i.releases
           left == IF i.duration > 0 THEN i.duration ELSE 0
           to == Time!FirstBucket(left)
           y == [i EXCEPT !.refs = remaining, !.releases = 0, !.soon = 0, !.listed[to] = @ + i.soon]
           x == Time!Forgetful(y)
<1>0. /\ i \in ItemSet /\ Time!Entries(i) \in Nat /\ i.releases \in Nat /\ i.soon \in Nat
      /\ i.duration \in Nat \cup {Time!NoTime} /\ i.listed \in [Time!Buckets -> Nat]
      /\ Time!Entries(i) = i.soon + Time!Listed(i) /\ Time!Listed(i) \in Nat /\ i.age \in Nat
  <2>1. i \in ItemSet
    BY DEF ItemSound
  <2>2. QED
    BY <2>1, EntryNumbers DEF ItemSet
<1>1. remaining = Time!Entries(i) + (IF i.where = "world" THEN 1 ELSE 0) /\ remaining \in Nat
  BY <1>0 DEF ItemSound
<1>2. left \in Nat
  BY <1>0 DEF Time!NoTime
<1>3. to \in Time!Buckets /\ (left >= Time!Round => WaitFor(to, lastBucket') = 4)
      /\ (left < Time!Round => WaitFor(to, lastBucket') = 1)
  BY <1>2, FirstWait
<1>4. CASE remaining = 0
  BY <1>4 DEF Time!CleanedUp
<1>5. CASE remaining # 0
  <2>1. Time!CleanedUp(i) = x
    BY <1>5 DEF Time!CleanedUp
  <2> HIDE DEF remaining, left, to
  <2>2. /\ y.kind = i.kind /\ y.where = i.where /\ y.refs = remaining
        /\ y.decaying = i.decaying /\ y.duration = i.duration /\ y.soon = 0
        /\ y.listed = [i.listed EXCEPT ![to] = @ + i.soon]
        /\ y.releases = 0 /\ y.due = i.due /\ y.age = i.age
        /\ y.timely = i.timely /\ y.twice = i.twice /\ y.stuck = i.stuck
    BY <1>0 DEF ItemSet
  <2>3. /\ y.listed \in [Time!Buckets -> Nat] /\ y.listed[to] = i.listed[to] + i.soon
        /\ \A c \in Time!Buckets : c # to => y.listed[c] = i.listed[c]
    BY <1>0, <1>3, <2>2
  <2>4. y \in ItemSet
    <3> DEFINE z == [i EXCEPT !.refs = remaining, !.releases = 0, !.soon = 0]
    <3>1. y = [z EXCEPT !.listed = y.listed]
      BY <1>0, <2>2 DEF ItemSet
    <3>2. z \in ItemSet
      BY <1>0, <1>1 DEF ItemSet
    <3> HIDE DEF y, z
    <3>3. QED
      BY <2>3, <3>1, <3>2 DEF ItemSet
  <2> HIDE DEF y
  <2>5. Time!Entries(y) = Time!Entries(i)
    <3> DEFINE f == i.listed
               g == y.listed
    <3>1. /\ f \in [Time!Buckets -> Nat] /\ g \in [Time!Buckets -> Nat]
          /\ g[to] = f[to] + i.soon /\ \A c \in Time!Buckets : c # to => g[c] = f[c]
      BY <1>0, <2>3
    <3> HIDE DEF f, g
    <3>2. g[0] + g[1] + g[2] + g[3] = f[0] + f[1] + f[2] + f[3] + i.soon
      BY <1>0, <1>3, <3>1, OneEntryMore
    <3>3. Time!Listed(y) = Time!Listed(i) + i.soon
      BY <3>2, Zenon DEF f, g, Time!Listed
    <3>4. QED
      BY <1>0, <2>2, <3>3 DEF Time!Entries
  <2>6. ItemTimed(y, 0, lastBucket')
    <3> SUFFICES ASSUME ~y.twice, y.duration # Time!NoTime, y.where = "world",
                        NEW b \in Time!Buckets, y.listed[b] = 1
                 PROVE  OnTime(y, WaitFor(b, lastBucket'))
      BY <2>2 DEF ItemTimed
    <3>1. Time!Entries(i) <= 1
      BY <1>0, <2>2 DEF ItemSound
    <3>2. CASE i.soon = 0
      <4>1. i.listed[b] = 1
        BY <1>0, <1>3, <2>3, <3>2
      <4>2. OnTime(i, WaitFor(b, lastBucket'))
        BY <2>2, <4>1 DEF ItemSound, ItemTimed
      <4>3. QED
        BY <2>2, <4>2 DEF OnTime, Lateness
    <3>3. CASE i.soon # 0
      <4>1. i.soon = 1 /\ Time!Listed(i) = 0
        BY <1>0, <3>1, <3>3
      <4>2. \A c \in Time!Buckets : i.listed[c] = 0
        BY <1>0, <4>1, EntryNumbers
      <4>3. b = to
        BY <2>3, <4>2
      <4>4. i.duration > 0 /\ i.due = i.duration /\ i.age \in {0, 1}
        BY <2>2, <4>1 DEF ItemSound, ItemTimed
      <4>5. i.duration \in Nat /\ left = i.duration
        BY <1>0, <2>2, <4>4 DEF left
      <4>6. Lateness(y, WaitFor(b, lastBucket')) = 2 * (i.age + WaitFor(b, lastBucket'))
        <5>1. y.age = i.age /\ y.due - y.duration = 0
          BY <2>2, <4>4, <4>5
        <5>2. WaitFor(b, lastBucket') \in {1, 4}
          BY <1>2, <1>3, <4>3 DEF Time!Round
        <5>3. QED
          BY <1>0, <5>1, <5>2 DEF Lateness, Time!Interval
      <4>7. CASE left >= Time!Round
        <5>1. WaitFor(b, lastBucket') = 4
          BY <1>3, <4>3, <4>7
        <5>2. Lateness(y, 4) \in {8, 10}
          BY <4>4, <4>6, <5>1
        <5>3. OnTime(y, 4)
          BY <2>2, <4>4, <4>5, <4>7, <5>2 DEF OnTime
        <5>4. QED
          BY <5>1, <5>3
      <4>8. CASE left < Time!Round
        <5>1. WaitFor(b, lastBucket') = 1
          BY <1>3, <4>3, <4>8
        <5>2. Lateness(y, 1) \in {2, 4}
          BY <4>4, <4>6, <5>1
        <5>3. OnTime(y, 1)
          BY <2>2, <4>4, <4>5, <4>8, <5>2 DEF OnTime, Time!Round
        <5>4. QED
          BY <5>1, <5>3
      <4>9. QED
        BY <4>5, <4>7, <4>8 DEF Time!Round
    <3>4. QED
      BY <3>2, <3>3
  <2>7. ItemSound(y, 0, 0, lastBucket')
    <3>1. y.refs = Time!Entries(y) + 0 + 0 + y.releases + (IF y.where = "world" THEN 1 ELSE 0)
      BY <1>0, <1>1, <2>2, <2>5
    <3>2. y.refs > 0
      BY <1>1, <1>5, <2>2
    <3>3. QED
      BY <2>2, <2>4, <2>5, <2>6, <3>1, <3>2 DEF ItemSound
  <2>8. y.decaying => Time!Entries(y) > 0 \/ y.stuck
    BY <1>0, <1>1, <1>5, <2>2, <2>5 DEF ItemRuns
  <2>9. CASE ~(y.twice \/ Time!Entries(y) = 0 \/ y.where = "removed")
    BY <2>1, <2>2, <2>7, <2>8, <2>9 DEF Time!Forgetful
  <2>10. CASE y.twice \/ Time!Entries(y) = 0 \/ y.where = "removed"
    <3>1. x = [y EXCEPT !.due = 0, !.age = 0]
      BY <2>10 DEF Time!Forgetful
    <3>2. /\ x.kind = y.kind /\ x.where = y.where /\ x.refs = y.refs
          /\ x.decaying = y.decaying /\ x.duration = y.duration /\ x.soon = y.soon
          /\ x.listed = y.listed /\ x.releases = y.releases
          /\ x.timely = y.timely /\ x.twice = y.twice /\ x.stuck = y.stuck
      BY <2>4, <3>1 DEF ItemSet
    <3> HIDE DEF x
    <3>2a. x \in ItemSet
      BY <2>4, <3>1 DEF ItemSet
    <3>3. Time!Entries(x) = Time!Entries(y)
      BY <3>2 DEF Time!Entries, Time!Listed
    <3>4. ItemTimed(x, 0, lastBucket')
      <4> SUFFICES ASSUME ~x.twice, x.where = "world" PROVE ItemTimed(x, 0, lastBucket')
        BY DEF ItemTimed
      <4>1. Time!Entries(y) = 0
        BY <2>10, <3>2
      <4>2. x.soon = 0 /\ \A b \in Time!Buckets : x.listed[b] = 0
        BY <2>4, <3>2, <4>1, EntryNumbers
      <4>3. QED
        BY <4>2 DEF ItemTimed
    <3>5. QED
      BY <2>1, <2>2, <2>7, <2>8, <3>2, <3>2a, <3>3, <3>4 DEF ItemSound
  <2>11. QED
    BY <2>9, <2>10
<1>6. QED
  BY <1>4, <1>5

-----------------------------------------------------------------------------
(* The visits of a bucket. *)

LEMMA TakenOutSound ==
  ASSUME DecayIInv, ItemSound(item, 0, 0, lastBucket),
         NEW bucket, bucket = (lastBucket + 1) % 4
  PROVE  /\ bucket \in Time!Buckets /\ item.listed[bucket] \in 0..MaxEntries
         /\ ItemSound(Time!TakenOut(item, bucket), item.listed[bucket], 0, bucket)
         /\ ItemRuns(Time!TakenOut(item, bucket), item.listed[bucket])
<1> DEFINE ahead == item.listed[bucket]
           age == IF Time!Entries(item) > 0 THEN item.age + 1 ELSE item.age
           x == Time!TakenOut(item, bucket)
<1>0. /\ item \in ItemSet /\ Time!Entries(item) \in Nat /\ item.age \in Nat /\ item.soon \in Nat
      /\ item.listed \in [Time!Buckets -> Nat] /\ Time!Listed(item) \in Nat
      /\ Time!Entries(item) = item.soon + Time!Listed(item) /\ MaxEntries \in Nat
      /\ lastBucket \in Time!Buckets /\ item.duration \in Nat \cup {Time!NoTime} /\ item.due \in Nat
  <2>1. item \in ItemSet
    BY DEF ItemSound
  <2>2. QED
    BY <2>1, EntryNumbers, DecayAssumption DEF ItemSet, DecayIInv
<1>2. bucket \in Time!Buckets /\ WaitFor(bucket, lastBucket) = 1
  BY <1>0, DecayWaits
<1>3. \A c \in Time!Buckets : c # bucket => WaitFor(c, lastBucket) = WaitFor(c, bucket) + 1
                                           /\ WaitFor(c, bucket) \in 1..3
  BY <1>0, DecayWaits
<1>4. ahead \in Nat /\ ahead <= Time!Listed(item)
  BY <1>0, <1>2, EntryNumbers
<1>5. x = [item EXCEPT !.age = age, !.listed[bucket] = 0] /\ age \in Nat
  BY <1>0 DEF Time!TakenOut
<1> HIDE DEF x, age
<1>6. /\ x.kind = item.kind /\ x.where = item.where /\ x.refs = item.refs
      /\ x.decaying = item.decaying /\ x.duration = item.duration /\ x.soon = item.soon
      /\ x.listed = [item.listed EXCEPT ![bucket] = 0]
      /\ x.releases = item.releases /\ x.due = item.due /\ x.age = age
      /\ x.timely = item.timely /\ x.twice = item.twice /\ x.stuck = item.stuck
  BY <1>0, <1>5 DEF ItemSet
<1>7. /\ x.listed \in [Time!Buckets -> Nat] /\ x.listed[bucket] = 0
      /\ \A c \in Time!Buckets : c # bucket => x.listed[c] = item.listed[c]
  BY <1>0, <1>2, <1>6
<1>8. x \in ItemSet
  <2>1. x = [item EXCEPT !.age = age, !.listed = x.listed]
    BY <1>0, <1>5, <1>6 DEF ItemSet
  <2>2. QED
    BY <1>0, <1>5, <1>7, <2>1 DEF ItemSet
<1>9. Time!Entries(item) = Time!Entries(x) + ahead
  <2> DEFINE f == x.listed
             g == item.listed
  <2>1. /\ f \in [Time!Buckets -> Nat] /\ g \in [Time!Buckets -> Nat]
        /\ g[bucket] = f[bucket] + ahead /\ \A c \in Time!Buckets : c # bucket => g[c] = f[c]
    BY <1>0, <1>4, <1>7
  <2> HIDE DEF f, g, ahead
  <2>2. g[0] + g[1] + g[2] + g[3] = f[0] + f[1] + f[2] + f[3] + ahead
    BY <1>2, <1>4, <2>1, OneEntryMore
  <2>3. Time!Listed(item) = Time!Listed(x) + ahead
    BY <2>2, Zenon DEF f, g, Time!Listed
  <2>4. Time!Listed(x) \in Nat
    BY <1>8, EntryNumbers
  <2>5. QED
    BY <1>0, <1>4, <1>6, <2>3, <2>4 DEF Time!Entries
<1>10. Time!Entries(x) \in Nat
  BY <1>8, EntryNumbers
<1>11. ItemTimed(x, ahead, bucket)
  <2> SUFFICES ASSUME ~x.twice, x.duration # Time!NoTime, x.where = "world"
               PROVE  /\ ahead = 1 => OnTime(x, 0)
                      /\ x.soon = 1 => x.duration > 0 /\ x.due = x.duration /\ x.age \in {0, 1}
                      /\ \A b \in Time!Buckets : x.listed[b] = 1 => OnTime(x, WaitFor(b, bucket))
    BY DEF ItemTimed
  <2>1. ItemTimed(item, 0, lastBucket) /\ ~item.twice /\ item.duration # Time!NoTime
          /\ item.where = "world"
    BY <1>6 DEF ItemSound
  <2>2. ASSUME Time!Entries(item) > 0, NEW wait \in 0..3, OnTime(item, wait + 1),
               wait = 0 \/ wait >= 1
        PROVE  OnTime(x, wait)
    <3>1. x.age = item.age + 1 /\ x.due = item.due /\ x.duration = item.duration
      BY <1>6, <2>2 DEF age
    <3>2. Lateness(x, wait) = Lateness(item, wait + 1)
      BY <1>0, <3>1 DEF Lateness, Time!Interval
    <3>3. QED
      BY <2>2, <3>1, <3>2 DEF OnTime
  <2>3. ahead = 1 => OnTime(x, 0)
    <3> SUFFICES ASSUME ahead = 1 PROVE OnTime(x, 0)
      OBVIOUS
    <3>1. OnTime(item, 1) /\ Time!Entries(item) > 0
      BY <1>0, <1>2, <1>4, <2>1 DEF ItemTimed
    <3>2. QED
      BY <2>2, <3>1
  <2>4. ASSUME NEW b \in Time!Buckets, x.listed[b] = 1
        PROVE  OnTime(x, WaitFor(b, bucket))
    <3>1. b # bucket /\ item.listed[b] = 1
      BY <1>7, <2>4
    <3>2. OnTime(item, WaitFor(b, bucket) + 1) /\ WaitFor(b, bucket) \in 1..3
      BY <1>3, <2>1, <3>1 DEF ItemTimed
    <3>3. Time!Entries(item) > 0
      <4>1. item.listed[b] <= Time!Listed(item)
        BY <1>0, EntryNumbers
      <4>2. QED
        BY <1>0, <3>1, <4>1
    <3>4. QED
      BY <2>2, <3>2, <3>3
  <2>5. ASSUME x.soon = 1
        PROVE  x.duration > 0 /\ x.due = x.duration /\ x.age \in {0, 1}
    <3>1. item.duration > 0 /\ item.due = item.duration
      BY <1>6, <2>1, <2>5 DEF ItemTimed
    <3>2. item.age = 0
      BY <1>6, <2>1, <2>5 DEF DecayIInv
    <3>3. QED
      BY <1>6, <3>1, <3>2 DEF age
  <2>6. QED
    BY <2>3, <2>4, <2>5
<1>12. ItemSound(x, ahead, 0, bucket)
  <2>1. x.refs = Time!Entries(x) + ahead + 0 + x.releases + (IF x.where = "world" THEN 1 ELSE 0)
    BY <1>4, <1>6, <1>9, <1>10 DEF ItemSound
  <2>2. /\ Time!Entries(x) + ahead <= MaxEntries
        /\ ~x.twice => Time!Entries(x) + ahead <= 1
    BY <1>0, <1>4, <1>6, <1>9, <1>10 DEF ItemSound
  <2>3. /\ x.where # "free" /\ x.refs > 0 /\ x.timely
        /\ DecayTime[x.kind] > 0 => x.duration # Time!NoTime
    BY <1>6 DEF ItemSound
  <2>4. QED
    BY <1>8, <1>11, <2>1, <2>2, <2>3 DEF ItemSound
<1>13. ItemRuns(x, ahead)
  BY <1>6, <1>9 DEF ItemRuns, DecayIInv
<1>14. ahead \in 0..MaxEntries
  BY <1>0, <1>4 DEF ItemSound
<1>15. QED
  BY <1>2, <1>12, <1>13, <1>14 DEF x

(* The visits are what their recursive definition says.                     *)
LEMMA VisitedAll ==
  ASSUME NEW i, NEW bucket, NEW count \in 0..MaxEntries
  PROVE  /\ Time!Visited(i, bucket, 0) = {i}
         /\ count > 0 => Time!Visited(i, bucket, count)
                           = UNION {Time!Visit(x, bucket) :
                                x \in Time!Visited(i, bucket, count - 1)}
<1> DEFINE After(S) == UNION {Time!Visit(x, bucket) : x \in S}
           Is(g, m) == g = [n \in 0..m |-> IF n = 0 THEN {i} ELSE After(g[n - 1])]
           f == CHOOSE g : Is(g, MaxEntries)
<1>0. MaxEntries \in Nat
  BY DecayAssumption
<1>1. \A n : Time!Visited(i, bucket, n) = f[n]
  BY DEF Time!Visited
<1> HIDE DEF After
<1>2. \A m \in Nat : \E g : Is(g, m)
  <2> DEFINE S == {m \in Nat : ~ \E g : Is(g, m)}
  <2> SUFFICES ASSUME S # {} PROVE FALSE
    OBVIOUS
  <2>1. PICK m \in S : \A n \in S : m <= n
    <3>1. S \in SUBSET Nat
      OBVIOUS
    <3> HIDE DEF S
    <3>2. QED
      BY <3>1, LeastNumber
  <2>2. m \in Nat /\ ~ \E g : Is(g, m)
    BY <2>1
  <2>3. CASE m = 0
    <3> DEFINE g == [n \in 0..0 |-> {i}]
    <3>1. g = [n \in 0..0 |-> IF n = 0 THEN {i} ELSE After(g[n - 1])]
      OBVIOUS
    <3>2. Is(g, m)
      BY <2>3, <3>1
    <3>3. QED
      BY <2>2, <3>2
  <2>4. CASE m # 0
    <3>1. m - 1 \in Nat /\ m - 1 \notin S
      <4>1. m - 1 \in Nat /\ ~(m <= m - 1)
        BY <2>2, <2>4
      <4> HIDE DEF S
      <4>2. QED
        BY <2>1, <4>1
    <3>2. PICK g : Is(g, m - 1)
      BY <3>1
    <3>3. /\ g = [n \in 0..(m - 1) |-> g[n]]
          /\ \A n \in 0..(m - 1) : g[n] = IF n = 0 THEN {i} ELSE After(g[n - 1])
      BY <3>2
    <3> DEFINE h == [n \in 0..m |-> IF n = m THEN After(g[m - 1]) ELSE g[n]]
    <3>4. ASSUME NEW n \in 0..m
          PROVE  h[n] = IF n = 0 THEN {i} ELSE After(h[n - 1])
      <4>1. CASE n = m
        <5>1. h[n] = After(g[m - 1]) /\ n # 0
          BY <2>2, <2>4, <4>1
        <5>2. h[n - 1] = g[m - 1]
          BY <2>2, <2>4, <4>1
        <5>3. QED
          BY <5>1, <5>2
      <4>2. CASE n # m
        <5>1. n \in 0..(m - 1) /\ h[n] = g[n]
          BY <2>2, <4>2
        <5>2. CASE n = 0
          BY <3>3, <5>1, <5>2
        <5>3. CASE n # 0
          <6>1. n - 1 \in 0..m /\ n - 1 # m
            BY <2>2, <4>2, <5>3
          <6>2. h[n - 1] = g[n - 1]
            BY <6>1
          <6>3. QED
            BY <3>3, <5>1, <5>3, <6>2
        <5>4. QED
          BY <5>2, <5>3
      <4>3. QED
        BY <4>1, <4>2
    <3>5. h = [n \in 0..m |-> h[n]]
      OBVIOUS
    <3> HIDE DEF h
    <3>6. Is(h, m)
      BY <3>4, <3>5
    <3>7. QED
      BY <2>2, <3>6
  <2>5. QED
    BY <2>3, <2>4
<1>3. Is(f, MaxEntries)
  BY <1>0, <1>2
<1> HIDE DEF f
<1>4. \A n \in 0..MaxEntries : f[n] = IF n = 0 THEN {i} ELSE After(f[n - 1])
  BY <1>3
<1>5. Time!Visited(i, bucket, 0) = {i}
  BY <1>0, <1>1, <1>4
<1>6. count > 0 => f[count] = After(f[count - 1])
  BY <1>0, <1>4
<1>7. QED
  BY <1>1, <1>5, <1>6 DEF After

LEMMA VisitedSound ==
  ASSUME NEW i, NEW ahead \in 0..MaxEntries, NEW bucket \in Time!Buckets,
         ItemSound(i, ahead, 0, bucket), ItemRuns(i, ahead),
         NEW x \in Time!Visited(i, bucket, ahead)
  PROVE  ItemSound(x, 0, 0, bucket) /\ ItemRuns(x, 0)
<1> DEFINE Good(n) == \A y \in Time!Visited(i, bucket, n) :
                            ItemSound(y, ahead - n, 0, bucket) /\ ItemRuns(y, ahead - n)
           S == {n \in 0..ahead : ~Good(n)}
<1>0. MaxEntries \in Nat /\ ahead \in Nat
  BY DecayAssumption
<1>1. S = {}
  <2> SUFFICES ASSUME S # {} PROVE FALSE
    OBVIOUS
  <2>1. PICK m \in S : \A n \in S : m <= n
    <3>1. S \in SUBSET Nat
      BY <1>0
    <3> HIDE DEF S
    <3>2. QED
      BY <3>1, LeastNumber
  <2>2. m \in 0..ahead /\ m \in 0..MaxEntries /\ ~Good(m)
    BY <1>0, <2>1
  <2>3. CASE m = 0
    <3>1. Time!Visited(i, bucket, 0) = {i} /\ ahead - 0 = ahead
      BY <1>0, <2>2, VisitedAll
    <3>2. QED
      BY <2>2, <2>3, <3>1
  <2>4. CASE m # 0
    <3>1. m - 1 \in 0..ahead /\ m - 1 \notin S
      BY <1>0, <2>1, <2>2, <2>4
    <3>2. Good(m - 1)
      BY <3>1
    <3>3. Time!Visited(i, bucket, m)
            = UNION {Time!Visit(y, bucket) : y \in Time!Visited(i, bucket, m - 1)}
      BY <1>0, <2>2, <2>4, VisitedAll
    <3>4. ASSUME NEW y \in Time!Visited(i, bucket, m)
          PROVE  ItemSound(y, ahead - m, 0, bucket) /\ ItemRuns(y, ahead - m)
      <4>1. PICK z \in Time!Visited(i, bucket, m - 1) : y \in Time!Visit(z, bucket)
        BY <3>3, <3>4
      <4>2. ahead - m \in Nat /\ ahead - (m - 1) = (ahead - m) + 1
        BY <1>0, <2>2
      <4>3. ItemSound(z, (ahead - m) + 1, 0, bucket) /\ ItemRuns(z, (ahead - m) + 1)
        BY <3>2, <4>1, <4>2
      <4> HIDE DEF Good, S
      <4>4. QED
        BY <4>1, <4>2, <4>3, VisitSound
    <3>5. QED
      BY <2>2, <3>4
  <2>5. QED
    BY <2>3, <2>4
<1>2. Good(ahead) /\ ahead - ahead = 0
  BY <1>0, <1>1
<1>3. QED
  BY <1>2

-----------------------------------------------------------------------------
LEMMA NewSound ==
  ASSUME NEW some \in Kinds, NEW duration \in Nat \cup {Time!NoTime}, NEW bucket \in Time!Buckets,
         DecayTime[some] > 0 => duration # Time!NoTime
  PROVE  LET new == Time!New(some, "world", duration)
         IN /\ ItemSound(new, 0, 0, bucket) /\ new.where = "world" /\ Time!Entries(new) = 0
            /\ ~new.decaying /\ new.age = 0 /\ new.duration = duration
<1> DEFINE new == Time!New(some, "world", duration)
<1>1. /\ new.kind = some /\ new.where = "world" /\ new.refs = 1 /\ ~new.decaying
      /\ new.duration = duration /\ new.soon = 0 /\ new.listed = [b \in Time!Buckets |-> 0]
      /\ new.releases = 0 /\ new.due = 0 /\ new.age = 0 /\ new.timely /\ ~new.twice
  BY DEF Time!New
<1>2. new \in ItemSet
  BY DEF Time!New, ItemSet
<1> HIDE DEF new
<1>3. Time!Entries(new) = 0
  BY <1>1 DEF Time!Entries, Time!Listed, Time!Buckets
<1>4. ItemTimed(new, 0, bucket)
  BY <1>1 DEF ItemTimed
<1>5. MaxEntries \in Nat
  BY DecayAssumption
<1>6. ItemSound(new, 0, 0, bucket)
  BY <1>1, <1>2, <1>3, <1>4, <1>5 DEF ItemSound
<1>7. QED
  BY <1>1, <1>3, <1>6 DEF new

LEMMA NothingKept ==
  /\ Time!Nothing \in ItemSet /\ Time!Entries(Time!Nothing) = 0 /\ Time!Nothing.where = "free"
  /\ ~Time!Nothing.decaying /\ Time!Nothing.timely /\ Time!Nothing.refs = 0
       /\ Time!Nothing.releases = 0
  /\ Time!Nothing.soon = 0 /\ Time!Nothing.age = 0
       /\ Time!Nothing.listed = [b \in Time!Buckets |-> 0]
<1>1. (CHOOSE k \in Kinds : TRUE) \in Kinds
  BY DecayAssumption
<1> DEFINE first == CHOOSE k \in Kinds : TRUE
<1> HIDE DEF first
<1>2. Time!Nothing = Time!New(first, "free", Time!NoTime)
  BY DEF Time!Nothing, first
<1>3. first \in Kinds
  BY <1>1 DEF first
<1>4. Time!Nothing \in ItemSet
  BY <1>2, <1>3 DEF Time!New, ItemSet
<1>5. /\ Time!Nothing.where = "free"
      /\ ~Time!Nothing.decaying /\ Time!Nothing.timely /\ Time!Nothing.refs = 0
           /\ Time!Nothing.releases = 0
      /\ Time!Nothing.soon = 0 /\ Time!Nothing.age = 0
           /\ Time!Nothing.listed = [b \in Time!Buckets |-> 0]
  BY <1>2 DEF Time!New
<1>6. QED
  BY <1>4, <1>5 DEF Time!Entries, Time!Listed, Time!Buckets

LEMMA DecayInitially == Time!Init => DecayIInv
<1> SUFFICES ASSUME Time!Init PROVE DecayIInv
  OBVIOUS
<1>1. lastBucket \in Time!Buckets /\ item = Time!Nothing
  BY DEF Time!Init, Time!Buckets
<1>2. QED
  BY <1>1, NothingKept DEF DecayIInv

LEMMA DecayStep == DecayIInv /\ Time!Next => DecayIInv'
<1> SUFFICES ASSUME DecayIInv, Time!Next PROVE DecayIInv'
  OBVIOUS
<1> DEFINE Ok(x) == /\ ItemSound(x, 0, 0, lastBucket)
                    /\ x.decaying => Time!Entries(x) > 0 \/ x.stuck
                    /\ x.soon = 1 /\ ~x.twice /\ x.duration # Time!NoTime /\ x.where = "world"
                         => x.age = 0
<1>0. MaxEntries \in Nat /\ MaxEntries >= 2 /\ lastBucket \in Time!Buckets
  BY DecayAssumption DEF DecayIInv
<1>a. item.where # "free" => Ok(item)
  BY NothingKept DEF DecayIInv
<1>b. ASSUME UNCHANGED lastBucket, Ok(item') PROVE DecayIInv'
  BY <1>0, <1>b DEF DecayIInv
<1>1. CASE Time!Appear
  <2>1. item = Time!Nothing /\ UNCHANGED lastBucket
    BY <1>1 DEF Time!Appear, DecayIInv, ItemSound
  <2>2. PICK some \in Kinds, left \in Durations \cup {Time!NoTime} :
          LET new == Time!New(some, "world", IF left = Time!NoTime /\ DecayTime[some] > 0
                                             THEN DecayTime[some] ELSE left)
              Added(i) == IF i.duration > 0 THEN Time!Pushed(i) ELSE i
          IN item' \in {new, Added(new), Added(Added(new))} \cup Time!StartDecay(new)
    BY <1>1, Zenon DEF Time!Appear
  <2> DEFINE duration == IF left = Time!NoTime /\ DecayTime[some] > 0 THEN DecayTime[some] ELSE left
             new == Time!New(some, "world", duration)
             Added(i) == IF i.duration > 0 THEN Time!Pushed(i) ELSE i
  <2>3. duration \in Nat \cup {Time!NoTime} /\ (DecayTime[some] > 0 => duration # Time!NoTime)
    <3>1. DecayTime[some] \in Nat /\ left \in Nat \cup {Time!NoTime}
      BY KindTimes, DecayAssumption
    <3>2. QED
      BY <3>1 DEF Time!NoTime
  <2>4. item' \in {new, Added(new), Added(Added(new))} \cup Time!StartDecay(new)
    BY <2>2
  <2> HIDE DEF duration
  <2>5. /\ ItemSound(new, 0, 0, lastBucket) /\ new.where = "world" /\ Time!Entries(new) = 0
        /\ ~new.decaying /\ new.age = 0 /\ new.duration = duration
    BY <1>0, <2>3, NewSound
  <2> HIDE DEF new
  <2>6. Ok(new)
    BY <2>5
  <2>7. /\ Ok(Added(new)) /\ Time!Entries(Added(new)) <= 1 /\ Added(new).where = "world"
    <3>1. CASE new.duration > 0
      <4>1. /\ ItemSound(Time!Pushed(new), 0, 0, lastBucket) /\ Time!Entries(Time!Pushed(new)) = 1
            /\ Time!Pushed(new).age = 0 /\ Time!Pushed(new).where = "world"
        BY <1>0, <2>5, <3>1, PushedSound
      <4>2. QED
        BY <3>1, <4>1
    <3>2. CASE ~(new.duration > 0)
      BY <2>5, <2>6, <3>2
    <3>3. QED
      BY <3>1, <3>2
  <2>8. Ok(Added(Added(new)))
    <3> DEFINE one == Added(new)
    <3>0. Ok(one) /\ Time!Entries(one) \in Nat /\ Time!Entries(one) <= 1 /\ one.where = "world"
      BY <2>7, EntryNumbers DEF ItemSound
    <3> HIDE DEF one
    <3>1. CASE one.duration > 0
      <4>1. /\ ItemSound(Time!Pushed(one), 0, 0, lastBucket) /\ Time!Entries(Time!Pushed(one)) > 0
            /\ Time!Pushed(one).age = 0
        BY <1>0, <3>0, <3>1, PushedSound
      <4>2. Added(one) = Time!Pushed(one)
        BY <3>1
      <4>3. QED
        BY <4>1, <4>2 DEF one
    <3>2. CASE ~(one.duration > 0)
      BY <3>0, <3>2 DEF one
    <3>3. QED
      BY <3>1, <3>2
  <2>9. ASSUME NEW x \in Time!StartDecay(new) PROVE Ok(x)
    <3>1. /\ ItemSound(x, 0, 0, lastBucket) /\ (x = new \/ x.age = 0)
          /\ x.decaying => Time!Entries(x) > 0 \/ x.stuck
      BY <1>0, <2>5, StartDecaySound
    <3>2. QED
      BY <2>5, <3>1
  <2> HIDE DEF Ok
  <2>10. Ok(item')
    BY <2>4, <2>6, <2>7, <2>8, <2>9
  <2>11. QED
    BY <1>b, <2>1, <2>10
<1>2. CASE Time!Transform
  <2>0. item.where = "world" /\ Time!Entries(item) < MaxEntries /\ UNCHANGED lastBucket
    BY <1>2 DEF Time!Transform
  <2>1. PICK some \in Kinds :
          item' \in {Time!SetID(item, some)} \cup Time!StartDecay(Time!SetID(item, some))
    BY <1>2 DEF Time!Transform
  <2> DEFINE s == Time!SetID(item, some)
  <2>2. /\ ItemSound(s, 0, 0, lastBucket) /\ s.where = "world"
             /\ Time!Entries(s) = Time!Entries(item)
        /\ (s.decaying => item.decaying) /\ s.stuck = item.stuck
        /\ (item.twice => s.twice)
    BY <1>0, <1>a, <2>0, SetIDSound
  <2>3. /\ s.soon = item.soon /\ s.age = item.age
        /\ (s.duration = item.duration \/ Time!Entries(item) = 0 \/ s.twice
              \/ item.duration # Time!NoTime \/ s.duration = Time!NoTime)
    <3>1. item \in ItemSet
      BY <1>a, <2>0 DEF ItemSound
    <3>2. s.soon = item.soon /\ s.age = item.age
      BY <3>1 DEF Time!SetID, ItemSet
    <3>3. CASE DecayTime[some] > 0 /\ (item.kind \notin StopTime \/ item.duration = Time!NoTime)
      <4>1. s.twice <=> item.twice \/ Time!Entries(item) > 0
        BY <3>1, <3>3 DEF Time!SetID, ItemSet
      <4>2. QED
        BY <3>1, <3>2, <4>1, EntryNumbers
    <3>4. CASE ~(DecayTime[some] > 0 /\ (item.kind \notin StopTime \/ item.duration = Time!NoTime))
      <4>1. s.duration \in {Time!NoTime, item.duration}
        BY <3>1, <3>4 DEF Time!SetID, ItemSet
      <4>2. QED
        BY <3>2, <4>1
    <3>5. QED
      BY <3>3, <3>4
  <2>4. s.soon = 1 => Time!Entries(item) # 0
    <3>1. item \in ItemSet
      BY <1>a, <2>0 DEF ItemSound
    <3>2. item.soon \in Nat /\ Time!Listed(item) \in Nat
            /\ Time!Entries(item) = item.soon + Time!Listed(item)
      BY <3>1, EntryNumbers
    <3>3. s.soon = item.soon
      BY <2>3
    <3> HIDE DEF s
    <3>4. QED
      BY <3>2, <3>3
  <2> HIDE DEF s
  <2>5. Ok(s)
    BY <1>a, <2>0, <2>2, <2>3, <2>4
  <2>6. ASSUME NEW x \in Time!StartDecay(s) PROVE Ok(x)
    <3>1. /\ ItemSound(x, 0, 0, lastBucket) /\ (x = s \/ x.age = 0)
          /\ x.decaying => Time!Entries(x) > 0 \/ x.stuck
      BY <1>0, <2>0, <2>2, <2>5, StartDecaySound
    <3>2. QED
      BY <2>5, <3>1
  <2>7. item' \in {s} \cup Time!StartDecay(s)
    BY <2>1 DEF s
  <2> HIDE DEF Ok
  <2>8. QED
    BY <1>b, <2>0, <2>5, <2>6, <2>7
<1>3. CASE Time!Start
  <2>1. /\ Ok(item) /\ item.where = "world" /\ Time!Entries(item) < MaxEntries
        /\ item' \in Time!StartDecay(item) /\ UNCHANGED lastBucket
    BY <1>3, <1>a DEF Time!Start
  <2>2. /\ ItemSound(item', 0, 0, lastBucket) /\ (item' = item \/ item'.age = 0)
        /\ item'.decaying => Time!Entries(item') > 0 \/ item'.stuck
    <3>1. ASSUME NEW x \in Time!StartDecay(item)
          PROVE  /\ ItemSound(x, 0, 0, lastBucket) /\ (x = item \/ x.age = 0)
                 /\ x.decaying => Time!Entries(x) > 0 \/ x.stuck
      BY <1>0, <2>1, StartDecaySound
    <3>2. QED
      BY <2>1, <3>1
  <2>3. QED
    BY <1>b, <2>1, <2>2
<1>4. CASE Time!Move
  <2>1. /\ Ok(item) /\ item.where = "world" /\ Time!Entries(item) < MaxEntries /\ item.duration > 0
        /\ item' = Time!Pushed(item) /\ UNCHANGED lastBucket
    BY <1>4, <1>a DEF Time!Move
  <2>2. Time!Entries(item) \in Nat /\ Time!Entries(item) + 0 < MaxEntries
    <3>1. item \in ItemSet
      BY <2>1 DEF ItemSound
    <3>2. QED
      BY <1>0, <2>1, <3>1, EntryNumbers
  <2>3. /\ ItemSound(Time!Pushed(item), 0, 0, lastBucket)
             /\ Time!Entries(Time!Pushed(item)) = Time!Entries(item) + 1
        /\ Time!Pushed(item).age = 0
    BY <1>0, <2>1, <2>2, PushedSound
  <2>4. Ok(item')
    BY <2>1, <2>2, <2>3
  <2>5. QED
    BY <1>b, <2>1, <2>4
<1>5. CASE Time!Remove
  <2>1. /\ Ok(item) /\ item.where = "world" /\ item' = Time!Removed(item) /\ UNCHANGED lastBucket
    BY <1>5, <1>a DEF Time!Remove
  <2>2. item \in ItemSet
    BY <2>1 DEF ItemSound
  <2>3. /\ ItemSound(item', 0, 0, lastBucket) /\ item'.where = "removed"
        /\ item'.decaying = item.decaying
    BY <1>0, <2>1, RemovedSound
  <2>4. item'.soon = item.soon /\ item'.listed = item.listed /\ item'.stuck = item.stuck
    BY <2>1, <2>2 DEF Time!Removed, ItemSet
  <2>5. Time!Entries(item') = Time!Entries(item)
    BY <2>4 DEF Time!Entries, Time!Listed
  <2>6. Ok(item')
    BY <2>1, <2>3, <2>4, <2>5
  <2>7. QED
    BY <1>b, <2>1, <2>6
<1>6. CASE Time!Cleanup
  <2>1. /\ item.releases + item.soon > 0 /\ UNCHANGED lastBucket /\ item' = Time!CleanedUp(item)
    BY <1>6 DEF Time!Cleanup
  <2>2. Ok(item)
    BY <2>1, NothingKept DEF DecayIInv
  <2>3. ItemSound(item, 0, 0, lastBucket') /\ ItemRuns(item, 0) /\ lastBucket' \in Time!Buckets
    <3>1. item \in ItemSet
      BY <2>2 DEF ItemSound
    <3>2. QED
      BY <1>0, <2>1, <2>2, <3>1, EntryNumbers DEF ItemRuns
  <2>4. \/ Time!CleanedUp(item) = Time!Nothing
        \/ /\ ItemSound(Time!CleanedUp(item), 0, 0, lastBucket')
           /\ Time!CleanedUp(item).decaying
                => Time!Entries(Time!CleanedUp(item)) > 0 \/ Time!CleanedUp(item).stuck
           /\ Time!CleanedUp(item).soon = 0
    BY <2>3, CleanedUpSound
  <2>5. QED
    BY <2>1, <2>3, <2>4, NothingKept DEF DecayIInv
<1>7. CASE Time!CheckDecay
  <2> DEFINE bucket == (lastBucket + 1) % 4
  <2>1. PICK x \in Time!Visited(Time!TakenOut(item, bucket), bucket, item.listed[bucket]) :
          lastBucket' = bucket /\ item' = Time!CleanedUp(x)
    BY <1>7 DEF Time!CheckDecay
  <2>2. bucket \in Time!Buckets
    BY <1>0, DecayWaits
  <2>3. \/ Time!CleanedUp(x) = Time!Nothing
        \/ /\ ItemSound(Time!CleanedUp(x), 0, 0, lastBucket')
           /\ Time!CleanedUp(x).decaying
                => Time!Entries(Time!CleanedUp(x)) > 0 \/ Time!CleanedUp(x).stuck
           /\ Time!CleanedUp(x).soon = 0
    <3>1. CASE item = Time!Nothing
      <4>1. item.listed[bucket] = 0
        BY <2>2, <3>1, NothingKept
      <4>2. Time!TakenOut(item, bucket) = item
        <5>1. [item.listed EXCEPT ![bucket] = 0] = item.listed
          BY <2>2, <3>1, NothingKept
        <5>2. item \in ItemSet /\ Time!Entries(item) = 0
          BY <3>1, NothingKept
        <5>3. Time!TakenOut(item, bucket) = [item EXCEPT !.age = @, !.listed[bucket] = 0]
          BY <5>2 DEF Time!TakenOut
        <5>4. [item EXCEPT !.age = @, !.listed[bucket] = 0]
                = [item EXCEPT !.listed = item.listed]
          BY <5>1, <5>2 DEF ItemSet
        <5>5. [item EXCEPT !.listed = item.listed] = item
          BY <5>2 DEF ItemSet
        <5>6. QED
          BY <5>3, <5>4, <5>5
      <4>3. Time!Visited(item, bucket, 0) = {item}
        <5>1. 0 \in 0..MaxEntries
          BY <1>0
        <5>2. QED
          BY <5>1, VisitedAll
      <4>4. x = Time!Nothing
        BY <2>1, <3>1, <4>1, <4>2, <4>3
      <4>5. Time!CleanedUp(x) = Time!Nothing
        BY <4>4, NothingKept DEF Time!CleanedUp
      <4>6. QED
        BY <4>5
    <3>2. CASE item # Time!Nothing
      <4>1. ItemSound(item, 0, 0, lastBucket)
        BY <3>2 DEF DecayIInv
      <4>2. /\ item.listed[bucket] \in 0..MaxEntries
            /\ ItemSound(Time!TakenOut(item, bucket), item.listed[bucket], 0, bucket)
            /\ ItemRuns(Time!TakenOut(item, bucket), item.listed[bucket])
        BY <4>1, TakenOutSound
      <4> HIDE DEF bucket
      <4>3. ItemSound(x, 0, 0, bucket) /\ ItemRuns(x, 0)
        BY <2>1, <2>2, <4>2, VisitedSound
      <4>4. ItemSound(x, 0, 0, lastBucket') /\ lastBucket' \in Time!Buckets
        BY <2>1, <2>2, <4>3
      <4>5. QED
        BY <4>3, <4>4, CleanedUpSound
    <3>3. QED
      BY <3>1, <3>2
  <2>4. QED
    BY <2>1, <2>2, <2>3, NothingKept DEF DecayIInv
<1>8. QED
  BY <1>1, <1>2, <1>3, <1>4, <1>5, <1>6, <1>7 DEF Time!Next

LEMMA DecayKept == DecayIInv => Time!DecayInv
<1> SUFFICES ASSUME DecayIInv PROVE Time!DecayInv
  OBVIOUS
<1>1. CASE item = Time!Nothing
  BY <1>1, NothingKept DEF DecayIInv, Time!DecayInv, Time!TypeOK, ItemSet
<1>2. CASE ItemSound(item, 0, 0, lastBucket)
  <2>1. item \in ItemSet
    BY <1>2 DEF ItemSound
  <2>2. Time!Entries(item) \in Nat
    BY <2>1, EntryNumbers
  <2>3. Time!TypeOK
    BY <2>1 DEF Time!TypeOK, ItemSet, DecayIInv
  <2>4. item.refs = Time!Entries(item) + item.releases + (IF item.where = "world" THEN 1 ELSE 0)
    <3>1. item.releases \in Nat
      BY <2>1 DEF ItemSet
    <3>2. QED
      BY <1>2, <2>2, <3>1 DEF ItemSound
  <2>5. QED
    BY <1>2, <2>3, <2>4 DEF Time!DecayInv, DecayIInv, ItemSound
<1>3. QED
  BY <1>1, <1>2 DEF DecayIInv

LEMMA DecayRests == DecayIInv /\ UNCHANGED (Time!vars) => DecayIInv'
<1> SUFFICES ASSUME DecayIInv, UNCHANGED (Time!vars) PROVE DecayIInv'
  OBVIOUS
<1>1. item' = item /\ lastBucket' = lastBucket
  BY DEF Time!vars
<1>2. QED
  BY <1>1 DEF DecayIInv

-----------------------------------------------------------------------------
LEMMA SameCount == \A S : Respawn!Cardinality(S) = Cardinality(S)
<1>1. \A S : Respawn!IsFiniteSet(S) <=> IsFiniteSet(S)
  BY DEF Respawn!IsFiniteSet, IsFiniteSet
<1>2. QED
  BY <1>1 DEF Respawn!Cardinality, Cardinality

(* Spawns.  The entries of the spawn, the monsters' own reference to it and  *)
(* the counters tell the same whatever goes first, the monster, its entry    *)
(* or the game's hold on it; and who empties a block leaves a check or is    *)
(* remembered as having left none.                                           *)

HasEntry(es, m) == \E e \in es : e[2] = m
Living(w, m) == w[m] \in {"inside", "outside"}

(* Places, counters, spawn and entries that fit together. *)
Fitting(w, r, sp, es) ==
  /\ w \in [Monsters -> {"free", "inside", "outside", "removed", "released"}]
  /\ r \in [Monsters -> 0..2]
  /\ sp \subseteq Monsters
  /\ es \subseteq (Blocks \cup {Respawn!Wanderer}) \X Monsters
  /\ \A e, f \in es : e[2] = f[2] => e = f
  /\ \A e, f \in es : e[1] = f[1] /\ e[1] \in Blocks => e = f
  /\ \A m \in Monsters :
       /\ Living(w, m) => (m \in sp <=> HasEntry(es, m))
       /\ r[m] = (IF HasEntry(es, m) THEN 1 ELSE 0)
                 + (IF Living(w, m) \/ w[m] = "removed" THEN 1 ELSE 0)
       /\ w[m] = "free" => r[m] = 0

(* An empty block has somebody to look after it, or was let down. *)
LookedAfter ==
  started = "running" /\ check = "none" =>
    \A b \in Blocks : Respawn!Occupied(b) \/ b \in missed \/ Respawn!Full

SpawnTyped ==
  /\ rest \in [Blocks -> Nat]
  /\ check \in {"none", "timer", "task"}
  /\ started \in {"before", "running", "cleared"}
  /\ losses \in 0..MaxLosses /\ refusals \in 0..MaxRefusals
  /\ missed \subseteq Blocks
  /\ started = "before" => check = "none" /\ spawnedMap = {}

SpawnsIInv == SpawnTyped /\ Fitting(where, refs, spawn, spawnedMap) /\ LookedAfter

LEMMA NoWanderer == Respawn!Wanderer \notin Blocks /\ Blocks \subseteq Nat
BY SpawnsAssumption, FS_CardinalityType DEF Respawn!Wanderer

-----------------------------------------------------------------------------
(* The addresses `new` takes. *)

(* Rank is a numbering: in their order, from zero, without a gap. *)
LEMMA RankLess ==
  ASSUME NEW S \in SUBSET Nat, IsFiniteSet(S), NEW x \in S
  PROVE  /\ Respawn!Rank(x, S) \in 0..(Cardinality(S) - 1)
         /\ \A y \in S : x < y => Respawn!Rank(x, S) < Respawn!Rank(y, S)
<1>1. \A y : IsFiniteSet({z \in S : z < y}) /\ Cardinality({z \in S : z < y}) \in Nat
  BY FS_Subset, FS_CardinalityType
<1>2. /\ IsFiniteSet(S \ {x}) /\ Cardinality(S \ {x}) = Cardinality(S) - 1
      /\ Cardinality(S) \in Nat
  BY FS_RemoveElement, FS_CardinalityType
<1>3. {z \in S : z < x} \subseteq S \ {x}
  OBVIOUS
<1>4. Respawn!Rank(x, S) <= Cardinality(S) - 1
  <2>1. Cardinality({z \in S : z < x}) <= Cardinality(S \ {x})
    BY <1>2, <1>3, FS_Subset
  <2>2. QED
    BY <1>2, <2>1, SameCount DEF Respawn!Rank
<1>5. ASSUME NEW y \in S, x < y PROVE Respawn!Rank(x, S) < Respawn!Rank(y, S)
  <2> DEFINE A == {z \in S : z < x}
             B == {z \in S : z < y}
  <2>1. IsFiniteSet(A) /\ IsFiniteSet(B) /\ Cardinality(A) \in Nat /\ Cardinality(B) \in Nat
    BY <1>1
  <2>2. A \cup {x} \subseteq B /\ x \notin A
    <3>1. S \subseteq Nat /\ x \in Nat /\ y \in Nat
      OBVIOUS
    <3>2. \A z \in Nat : z < x => z < y
      BY <1>5, <3>1
    <3>3. ~(x < x)
      BY <3>1
    <3>4. QED
      BY <1>5, <3>1, <3>2, <3>3
  <2> HIDE DEF A, B
  <2>3. IsFiniteSet(A \cup {x}) /\ Cardinality(A \cup {x}) = Cardinality(A) + 1
    BY <2>1, <2>2, FS_AddElement
  <2>4. Cardinality(A \cup {x}) <= Cardinality(B)
    BY <2>1, <2>2, FS_Subset
  <2>5. Cardinality(A) < Cardinality(B)
    BY <2>1, <2>3, <2>4
  <2>6. QED
    BY <2>5, SameCount DEF Respawn!Rank, A, B
<1>6. QED
  BY <1>1, <1>2, <1>4, <1>5, SameCount DEF Respawn!Rank

LEMMA RankApart ==
  ASSUME NEW S \in SUBSET Nat, IsFiniteSet(S), NEW x \in S, NEW y \in S,
         Respawn!Rank(x, S) = Respawn!Rank(y, S)
  PROVE  x = y
<1>1. ASSUME x < y PROVE FALSE
  BY <1>1, RankLess
<1>2. ASSUME y < x PROVE FALSE
  BY <1>2, RankLess
<1>3. x \in Nat /\ y \in Nat
  OBVIOUS
<1>4. QED
  BY <1>1, <1>2, <1>3

LEMMA RankFull ==
  ASSUME NEW S \in SUBSET Nat, IsFiniteSet(S), NEW k \in 0..(Cardinality(S) - 1)
  PROVE  \E x \in S : Respawn!Rank(x, S) = k
<1> DEFINE T == 0..(Cardinality(S) - 1)
           f == [x \in S |-> Respawn!Rank(x, S)]
<1>1. Cardinality(S) \in Nat /\ Cardinality(S) > 0
  BY FS_CardinalityType
<1>2. IsFiniteSet(T) /\ Cardinality(T) = Cardinality(S)
  BY <1>1, FS_Interval
<1>3. f \in [S -> T]
  BY RankLess
<1>4. \A x, y \in S : f[x] = f[y] => x = y
  BY RankApart
<1>5. f \in Injection(S, T)
  <2> HIDE DEF f, T
  <2>1. QED
    BY <1>3, <1>4 DEF Injection, IsInjective
<1>6. f \in Surjection(S, T)
  <2> HIDE DEF f, T
  <2>1. QED
    BY <1>2, <1>5, FS_Injection
<1>7. \E x \in S : f[x] = k
  BY <1>6 DEF Surjection
<1>8. QED
  BY <1>7

(* Each block gets a free address of its own. *)
LEMMA AssignedApart ==
  ASSUME NEW bs \in SUBSET Blocks, NEW w,
         Cardinality(bs) <= Cardinality({m \in Monsters : w[m] = "free"})
  PROVE  LET new == Respawn!Assigned(bs, w)
         IN /\ new \subseteq bs \X {m \in Monsters : w[m] = "free"}
            /\ \A b \in bs : \E e \in new : e[1] = b
            /\ \A e, f \in new : e[1] = f[1] \/ e[2] = f[2] => e = f
<1> DEFINE free == {m \in Monsters : w[m] = "free"}
           Taken(b) == CHOOSE m \in free : Respawn!Rank(m, free) = Respawn!Rank(b, bs)
<1>1. bs \in SUBSET Nat /\ IsFiniteSet(bs) /\ free \in SUBSET Nat /\ IsFiniteSet(free)
  BY SpawnsAssumption, NoWanderer, FS_Subset
<1>2. Cardinality(bs) \in Nat /\ Cardinality(free) \in Nat
  BY <1>1, FS_CardinalityType
<1>3. \A b \in bs : Taken(b) \in free /\ Respawn!Rank(Taken(b), free) = Respawn!Rank(b, bs)
  <2> SUFFICES ASSUME NEW b \in bs
               PROVE  Taken(b) \in free /\ Respawn!Rank(Taken(b), free) = Respawn!Rank(b, bs)
    OBVIOUS
  <2>1. Respawn!Rank(b, bs) \in 0..(Cardinality(bs) - 1)
    BY <1>1, RankLess
  <2>2. Cardinality(bs) <= Cardinality(free)
    OBVIOUS
  <2> HIDE DEF free
  <2>3. Respawn!Rank(b, bs) \in 0..(Cardinality(free) - 1)
    BY <1>2, <2>1, <2>2
  <2>4. \E m \in free : Respawn!Rank(m, free) = Respawn!Rank(b, bs)
    BY <1>1, <2>3, RankFull
  <2>5. QED
    BY <2>4
<1>4. Respawn!Assigned(bs, w) = {<<b, Taken(b)>> : b \in bs}
  BY DEF Respawn!Assigned
<1> HIDE DEF free, Taken
<1>5. \A b, c \in bs : Taken(b) = Taken(c) => b = c
  BY <1>1, <1>3, RankApart
<1>6. Respawn!Assigned(bs, w) \subseteq bs \X free
  BY <1>3, <1>4
<1>7. \A e \in Respawn!Assigned(bs, w) : e[1] \in bs /\ e = <<e[1], Taken(e[1])>>
        /\ e[2] = Taken(e[1])
  BY <1>4
<1>8. \A b \in bs : \E e \in Respawn!Assigned(bs, w) : e[1] = b
  <2>1. \A b \in bs : <<b, Taken(b)>> \in Respawn!Assigned(bs, w) /\ <<b, Taken(b)>>[1] = b
    BY <1>4
  <2>2. QED
    BY <2>1
<1>9. \A e, f \in Respawn!Assigned(bs, w) : e[1] = f[1] \/ e[2] = f[2] => e = f
  BY <1>5, <1>7
<1>10. QED
  BY <1>6, <1>8, <1>9 DEF free

(* Spawn::spawnMonster keeps everything fitting. *)
LEMMA SpawnedFits ==
  ASSUME NEW w, NEW counts, NEW entries, NEW bs \in SUBSET Blocks,
         Fitting(w, counts, spawn, entries), \A e \in entries : e[1] \notin bs,
         Respawn!Spawned(bs, w, counts, entries)
  PROVE  /\ Fitting(where, refs, spawn, spawnedMap)'
         /\ \A m \in Monsters : Living(w, m) => Living(where', m)
         /\ \A b \in bs : \E e \in spawnedMap' : e[1] = b /\ Living(where', e[2])
         /\ \A e \in spawnedMap' : e \in entries \/ Living(where', e[2])
<1> DEFINE new == Respawn!Assigned(bs, w)
           ms == {e[2] : e \in new}
           free == {m \in Monsters : w[m] = "free"}
<1>1. /\ Cardinality(bs) <= Cardinality(free)
      /\ spawnedMap' = entries \cup new
      /\ where' = [m \in Monsters |-> IF m \in ms THEN "inside" ELSE w[m]]
      /\ refs' = [m \in Monsters |-> IF m \in ms THEN 2 ELSE counts[m]]
      /\ spawn' = {m \in spawn : w[m] # "free"} \cup ms
  BY SameCount DEF Respawn!Spawned
<1>2. /\ new \subseteq bs \X free
      /\ \A b \in bs : \E e \in new : e[1] = b
      /\ \A e, f \in new : e[1] = f[1] \/ e[2] = f[2] => e = f
  BY <1>1, AssignedApart
<1> HIDE DEF new
<1>3. /\ w \in [Monsters -> {"free", "inside", "outside", "removed", "released"}]
      /\ counts \in [Monsters -> 0..2] /\ spawn \subseteq Monsters
      /\ entries \subseteq (Blocks \cup {Respawn!Wanderer}) \X Monsters
  BY DEF Fitting
<1>4. \A m \in Monsters :
        /\ Living(w, m) => (m \in spawn <=> HasEntry(entries, m))
        /\ counts[m] = (IF HasEntry(entries, m) THEN 1 ELSE 0)
                       + (IF Living(w, m) \/ w[m] = "removed" THEN 1 ELSE 0)
        /\ w[m] = "free" => counts[m] = 0
  BY DEF Fitting
<1>5. ms \subseteq free /\ free \subseteq Monsters
  BY <1>2
<1>6. \A m \in Monsters : HasEntry(new, m) <=> m \in ms
  BY DEF HasEntry
<1>7. \A m \in free : ~HasEntry(entries, m) /\ ~Living(w, m) /\ w[m] # "removed"
  BY <1>4, <1>5 DEF Living
<1>8. \A m \in Monsters : HasEntry(spawnedMap', m) <=> HasEntry(entries, m) \/ m \in ms
  BY <1>1, <1>6 DEF HasEntry
<1>9. /\ where' \in [Monsters -> {"free", "inside", "outside", "removed", "released"}]
      /\ refs' \in [Monsters -> 0..2] /\ spawn' \subseteq Monsters
      /\ spawnedMap' \subseteq (Blocks \cup {Respawn!Wanderer}) \X Monsters
  BY <1>1, <1>2, <1>3, <1>5
<1>10. /\ \A m \in ms : where'[m] = "inside" /\ refs'[m] = 2 /\ m \in spawn'
       /\ \A m \in Monsters \ ms :
            /\ where'[m] = w[m] /\ refs'[m] = counts[m]
            /\ w[m] # "free" => (m \in spawn' <=> m \in spawn)
  BY <1>1, <1>5
<1>11. \A e \in new : e[1] \in bs /\ e[2] \in ms
  BY <1>2
<1>12. /\ \A e, f \in spawnedMap' : e[2] = f[2] => e = f
       /\ \A e, f \in spawnedMap' : e[1] = f[1] /\ e[1] \in Blocks => e = f
  <2>1. \A e \in entries, f \in new : e[2] # f[2]
    BY <1>5, <1>7, <1>11 DEF HasEntry
  <2>2. \A e \in entries, f \in new : e[1] # f[1]
    BY <1>11
  <2>3. /\ \A e, f \in entries : e[2] = f[2] => e = f
        /\ \A e, f \in entries : e[1] = f[1] /\ e[1] \in Blocks => e = f
    BY DEF Fitting
  <2>4. QED
    BY <1>1, <1>2, <2>1, <2>2, <2>3
<1> HIDE DEF ms, free
<1>13. ASSUME NEW m \in Monsters
       PROVE  /\ Living(where', m) => (m \in spawn' <=> HasEntry(spawnedMap', m))
              /\ refs'[m] = (IF HasEntry(spawnedMap', m) THEN 1 ELSE 0)
                            + (IF Living(where', m) \/ where'[m] = "removed" THEN 1 ELSE 0)
              /\ where'[m] = "free" => refs'[m] = 0
  <2>1. CASE m \in ms
    BY <1>8, <1>10, <2>1 DEF Living
  <2>2. CASE m \notin ms
    <3>1. /\ where'[m] = w[m] /\ refs'[m] = counts[m]
          /\ HasEntry(spawnedMap', m) <=> HasEntry(entries, m)
      BY <1>8, <1>10, <2>2
    <3>2. Living(where', m) <=> Living(w, m)
      BY <3>1 DEF Living
    <3>3. Living(w, m) => (m \in spawn' <=> m \in spawn)
      BY <1>10, <2>2 DEF Living
    <3>4. QED
      BY <1>4, <3>1, <3>2, <3>3
  <2>3. QED
    BY <2>1, <2>2
<1>14. Fitting(where, refs, spawn, spawnedMap)'
  BY <1>9, <1>12, <1>13 DEF Fitting
<1>15. \A m \in Monsters : Living(w, m) => Living(where', m)
  BY <1>10 DEF Living
<1>16. \A e \in new : Living(where', e[2])
  BY <1>10, <1>11 DEF Living
<1>17. QED
  BY <1>1, <1>2, <1>14, <1>15, <1>16

-----------------------------------------------------------------------------
LEMMA SpawnsInitially == Respawn!Init => SpawnsIInv
<1> SUFFICES ASSUME Respawn!Init PROVE SpawnsIInv
  OBVIOUS
<1>1. Fitting(where, refs, spawn, spawnedMap)
  BY DEF Respawn!Init, Fitting, HasEntry, Living
<1>2. SpawnTyped /\ LookedAfter
  BY SpawnsAssumption DEF Respawn!Init, SpawnTyped, LookedAfter
<1>3. QED
  BY <1>1, <1>2 DEF SpawnsIInv

(* A block with a living monster is occupied. *)
LEMMA OccupiedBy ==
  ASSUME SpawnsIInv, NEW b
  PROVE  Respawn!Occupied(b) <=> \E e \in spawnedMap : e[1] = b /\ Living(where, e[2])
BY DEF Respawn!Occupied, Respawn!SpawnedOf, Respawn!Alive, Living, SpawnsIInv, Fitting

(* What holds of an entry is alive, or gone. *)
LEMMA EntryHeld ==
  ASSUME Fitting(where, refs, spawn, spawnedMap), NEW e \in spawnedMap
  PROVE  /\ e[2] \in Monsters /\ e[1] \in Blocks \cup {Respawn!Wanderer}
         /\ Living(where, e[2]) \/ where[e[2]] \in Respawn!Gone
<1>1. e[2] \in Monsters /\ e[1] \in Blocks \cup {Respawn!Wanderer}
  BY DEF Fitting
<1>2. refs[e[2]] > 0
  BY <1>1 DEF Fitting, HasEntry
<1>3. QED
  BY <1>1, <1>2 DEF Fitting, Living, Respawn!Gone

(* Spawn::startup. *)
LEMMA StartupKeeps == SpawnsIInv /\ Respawn!Startup => SpawnsIInv'
<1> SUFFICES ASSUME SpawnsIInv, Respawn!Startup PROVE SpawnsIInv'
  OBVIOUS
<1>1. PICK bs \in SUBSET Blocks :
        /\ Respawn!Spawned(bs, where, refs, {})
        /\ rest' = [b \in Blocks |-> IF b \in bs THEN Delay[b] ELSE 0]
        /\ missed' = Blocks \ bs
  BY DEF Respawn!Startup
<1>2. started = "before" /\ started' = "running" /\ UNCHANGED <<check, losses, refusals>>
  BY DEF Respawn!Startup
<1>3. SpawnTyped /\ Fitting(where, refs, spawn, {})
  BY <1>2 DEF SpawnsIInv, SpawnTyped
<1>4. /\ Fitting(where, refs, spawn, spawnedMap)'
      /\ \A b \in bs : \E e \in spawnedMap' : e[1] = b /\ Living(where', e[2])
  BY <1>1, <1>3, SpawnedFits
<1>5. SpawnTyped'
  BY <1>1, <1>2, <1>3, SpawnsAssumption DEF SpawnTyped
<1>6. \A b \in bs : Respawn!Occupied(b)'
  BY <1>4 DEF Respawn!Occupied, Respawn!SpawnedOf, Respawn!Alive, Living, Fitting
<1>7. QED
  BY <1>1, <1>4, <1>5, <1>6 DEF SpawnsIInv, LookedAfter

(* Spawn::cleanup leaves entries and counters that fit. *)
LEMMA CleanedFits ==
  ASSUME SpawnsIInv
  PROVE  LET counts == Respawn!Dropped({e[2] : e \in Respawn!Removed(spawnedMap)})
             w == Respawn!Freed(counts)
         IN /\ Fitting(w, counts, spawn, Respawn!Cleaned(spawnedMap))
            /\ \A e \in Respawn!Cleaned(spawnedMap) : Living(w, e[2])
<1> DEFINE gone == {e[2] : e \in Respawn!Removed(spawnedMap)}
           counts == Respawn!Dropped(gone)
           w == Respawn!Freed(counts)
           entries == Respawn!Cleaned(spawnedMap)
           There == {"free", "inside", "outside", "removed", "released"}
<1>1. /\ where \in [Monsters -> There] /\ refs \in [Monsters -> 0..2] /\ spawn \subseteq Monsters
      /\ spawnedMap \subseteq (Blocks \cup {Respawn!Wanderer}) \X Monsters
      /\ \A e, f \in spawnedMap : e[2] = f[2] => e = f
      /\ \A e, f \in spawnedMap : e[1] = f[1] /\ e[1] \in Blocks => e = f
  BY DEF SpawnsIInv, Fitting
<1>2. \A m \in Monsters :
        /\ Living(where, m) => (m \in spawn <=> HasEntry(spawnedMap, m))
        /\ refs[m] = (IF HasEntry(spawnedMap, m) THEN 1 ELSE 0)
                     + (IF Living(where, m) \/ where[m] = "removed" THEN 1 ELSE 0)
        /\ where[m] = "free" => refs[m] = 0
  BY DEF SpawnsIInv, Fitting
<1>3. \A m \in Monsters : m \in gone <=> HasEntry(spawnedMap, m) /\ where[m] \in Respawn!Gone
  BY DEF Respawn!Removed, HasEntry
<1>4. \A m \in Monsters : /\ counts[m] = IF m \in gone THEN refs[m] - 1 ELSE refs[m]
                          /\ w[m] = IF refs[m] > 0 /\ counts[m] = 0 THEN "free" ELSE where[m]
  BY DEF Respawn!Dropped, Respawn!Freed
<1>5. counts = [m \in Monsters |-> counts[m]] /\ w = [m \in Monsters |-> w[m]]
  BY DEF Respawn!Dropped, Respawn!Freed
<1> HIDE DEF gone, counts, w
<1>6. \A m \in Monsters : Living(w, m) <=> Living(where, m)
  BY <1>1, <1>2, <1>3, <1>4 DEF Living, Respawn!Gone
<1>7. \A e \in spawnedMap \ Respawn!Removed(spawnedMap) : Living(where, e[2]) /\ e[2] \in Monsters
  BY EntryHeld DEF SpawnsIInv, Respawn!Removed
<1>8. \A x \in entries : \E e \in spawnedMap \ Respawn!Removed(spawnedMap) :
                           x[2] = e[2] /\ (x = e \/ x = <<Respawn!Wanderer, e[2]>>)
                             /\ x = <<x[1], x[2]>>
  BY <1>1 DEF Respawn!Cleaned
<1>9. \A m \in Monsters : HasEntry(entries, m) <=> HasEntry(spawnedMap, m) /\ m \notin gone
  <2>1. ASSUME NEW e \in spawnedMap, e[2] \notin gone PROVE HasEntry(entries, e[2])
    <3>1. e \notin Respawn!Removed(spawnedMap)
      BY <2>1 DEF gone
    <3>2. CASE where[e[2]] = "outside"
      <4>1. <<Respawn!Wanderer, e[2]>> \in entries /\ <<Respawn!Wanderer, e[2]>>[2] = e[2]
        BY <3>1, <3>2 DEF Respawn!Cleaned
      <4>2. QED
        BY <4>1 DEF HasEntry
    <3>3. CASE where[e[2]] # "outside"
      <4>1. e \in entries
        BY <3>1, <3>3 DEF Respawn!Cleaned
      <4>2. QED
        BY <4>1 DEF HasEntry
    <3>4. QED
      BY <3>2, <3>3
  <2>2. ASSUME NEW m \in Monsters, HasEntry(entries, m)
        PROVE  HasEntry(spawnedMap, m) /\ m \notin gone
    <3>1. PICK e \in spawnedMap \ Respawn!Removed(spawnedMap) : e[2] = m
      BY <1>8, <2>2 DEF HasEntry
    <3>2. HasEntry(spawnedMap, m) /\ where[m] \notin Respawn!Gone
      BY <3>1 DEF HasEntry, Respawn!Removed
    <3>3. QED
      BY <1>3, <3>2
  <2>3. QED
    BY <2>1, <2>2 DEF HasEntry
<1>10. ASSUME NEW m \in Monsters
       PROVE  /\ Living(w, m) => (m \in spawn <=> HasEntry(entries, m))
              /\ counts[m] = (IF HasEntry(entries, m) THEN 1 ELSE 0)
                             + (IF Living(w, m) \/ w[m] = "removed" THEN 1 ELSE 0)
              /\ w[m] = "free" => counts[m] = 0
              /\ counts[m] \in 0..2 /\ w[m] \in There
  <2>0. refs[m] \in 0..2 /\ where[m] \in There
    BY <1>1
  <2>1. CASE m \in gone
    <3>1. /\ HasEntry(spawnedMap, m) /\ where[m] \in Respawn!Gone /\ ~Living(where, m)
               /\ ~Living(w, m)
          /\ ~HasEntry(entries, m)
      BY <1>3, <1>6, <1>9, <2>1 DEF Living, Respawn!Gone
    <3>2. CASE where[m] = "removed"
      BY <1>2, <1>4, <2>1, <3>1, <3>2
    <3>3. CASE where[m] = "released"
      BY <1>2, <1>4, <2>1, <3>1, <3>3
    <3>4. QED
      BY <3>1, <3>2, <3>3 DEF Respawn!Gone
  <2>2. CASE m \notin gone
    <3>1. counts[m] = refs[m] /\ w[m] = where[m]
      BY <1>2, <1>4, <2>0, <2>2
    <3>2. HasEntry(entries, m) <=> HasEntry(spawnedMap, m)
      BY <1>9, <2>2
    <3>3. QED
      BY <1>2, <1>6, <2>0, <3>1, <3>2
  <2>3. QED
    BY <2>1, <2>2
<1>11. w \in [Monsters -> There] /\ counts \in [Monsters -> 0..2]
  BY <1>5, <1>10
<1>12. entries \subseteq (Blocks \cup {Respawn!Wanderer}) \X Monsters
  BY <1>1, <1>8
<1>13. \A x, y \in entries : x[2] = y[2] => x = y
  <2> SUFFICES ASSUME NEW x \in entries, NEW y \in entries, x[2] = y[2] PROVE x = y
    OBVIOUS
  <2>1. PICK e \in spawnedMap \ Respawn!Removed(spawnedMap) :
              x = IF where[e[2]] = "outside" THEN <<Respawn!Wanderer, e[2]>> ELSE e
    BY DEF Respawn!Cleaned
  <2>2. PICK f \in spawnedMap \ Respawn!Removed(spawnedMap) :
              y = IF where[f[2]] = "outside" THEN <<Respawn!Wanderer, f[2]>> ELSE f
    BY DEF Respawn!Cleaned
  <2>3. x[2] = e[2] /\ y[2] = f[2]
    BY <2>1, <2>2
  <2>4. e = f
    BY <1>1, <2>3
  <2>5. QED
    BY <2>1, <2>2, <2>4
<1>14. \A x, y \in entries : x[1] = y[1] /\ x[1] \in Blocks => x = y
  <2>1. \A x \in entries : x[1] \in Blocks => x \in spawnedMap
    BY <1>8, NoWanderer
  <2>2. QED
    BY <1>1, <2>1
<1>15. Fitting(w, counts, spawn, entries)
  BY <1>1, <1>10, <1>11, <1>12, <1>13, <1>14 DEF Fitting
<1>16. \A x \in entries : Living(w, x[2])
  BY <1>6, <1>7, <1>8
<1>17. QED
  BY <1>15, <1>16 DEF w, counts, gone

(* Spawn::checkSpawn. *)
LEMMA CheckSpawnKeeps == SpawnsIInv /\ Respawn!CheckSpawn => SpawnsIInv'
<1> SUFFICES ASSUME SpawnsIInv, Respawn!CheckSpawn PROVE SpawnsIInv'
  OBVIOUS
<1> DEFINE counts == Respawn!Dropped({e[2] : e \in Respawn!Removed(spawnedMap)})
           w == Respawn!Freed(counts)
           entries == Respawn!Cleaned(spawnedMap)
           due == {b \in Blocks \ Respawn!Filled(entries) : rest[b] = 0}
<1>1. PICK bs \in SUBSET Respawn!Attempted(due) :
        /\ refusals' = refusals + Cardinality(Respawn!Attempted(due) \ bs)
        /\ refusals' <= MaxRefusals
        /\ Respawn!Spawned(bs, w, counts, entries)
        /\ rest' = [b \in Blocks |-> IF b \in bs THEN Delay[b] ELSE rest[b]]
        /\ check' = Respawn!Rescheduled(spawnedMap')
  BY SameCount DEF Respawn!CheckSpawn
<1>2. check = "task" /\ missed' = {} /\ UNCHANGED <<started, losses>>
  BY SameCount DEF Respawn!CheckSpawn
<1>3. Fitting(w, counts, spawn, entries) /\ \A e \in entries : Living(w, e[2])
  BY CleanedFits
<1>4. Respawn!Attempted(due) \subseteq due /\ due \subseteq Blocks
  BY DEF Respawn!Attempted
<1>5. bs \in SUBSET Blocks /\ \A e \in entries : e[1] \notin bs
  BY <1>4 DEF Respawn!Filled
<1> HIDE DEF counts, w, entries, due
<1>6. /\ Fitting(where, refs, spawn, spawnedMap)'
      /\ \A m \in Monsters : Living(w, m) => Living(where', m)
      /\ \A e \in spawnedMap' : e \in entries \/ Living(where', e[2])
  BY <1>1, <1>3, <1>5, SpawnedFits
<1>7. \A e \in spawnedMap' : Living(where', e[2]) /\ e[2] \in Monsters
  <2>1. \A e \in spawnedMap' : e[2] \in Monsters
    BY <1>6 DEF Fitting
  <2>2. QED
    BY <1>3, <1>6, <2>1
<1>8. SpawnTyped'
  <2>1. SpawnTyped /\ started # "before"
    BY <1>2 DEF SpawnsIInv, SpawnTyped
  <2>2. Cardinality(Respawn!Attempted(due) \ bs) \in Nat
    BY <1>4, SpawnsAssumption, FS_Subset, FS_CardinalityType
  <2>3. refusals' \in 0..MaxRefusals
    BY <1>1, <2>1, <2>2, SpawnsAssumption DEF SpawnTyped
  <2>4. rest' \in [Blocks -> Nat] /\ check' \in {"none", "timer", "task"}
    BY <1>1, <2>1, SpawnsAssumption, SameCount DEF SpawnTyped, Respawn!Rescheduled
  <2>5. QED
    BY <1>2, <2>1, <2>3, <2>4 DEF SpawnTyped
<1>9. ASSUME check' = "none" PROVE Respawn!Full'
  <2>1. ~(Cardinality(spawnedMap') < Cardinality(Blocks))
    BY <1>1, <1>9, SameCount DEF Respawn!Rescheduled
  <2>2. {e \in spawnedMap' : e[2] \in Respawn!Alive'} = spawnedMap'
    BY <1>7 DEF Respawn!Alive, Living
  <2>3. Cardinality(spawnedMap') \in Nat /\ Cardinality(Blocks) \in Nat
    <3>1. IsFiniteSet(Blocks \cup {Respawn!Wanderer})
      BY SpawnsAssumption, FS_AddElement
    <3>2. IsFiniteSet((Blocks \cup {Respawn!Wanderer}) \X Monsters)
      BY <3>1, SpawnsAssumption, FS_Product
    <3>3. IsFiniteSet(spawnedMap')
      BY <1>6, <3>2, FS_Subset DEF Fitting
    <3>4. QED
      BY <3>3, SpawnsAssumption, FS_CardinalityType
  <2>4. QED
    BY <2>1, <2>2, <2>3, SameCount DEF Respawn!Full
<1>10. QED
  BY <1>6, <1>8, <1>9 DEF SpawnsIInv, LookedAfter

(* Time goes by. *)
LEMMA TimeKeeps == SpawnsIInv /\ (Respawn!CheckDue \/ Respawn!Elapse) => SpawnsIInv'
<1> SUFFICES ASSUME SpawnsIInv, Respawn!CheckDue \/ Respawn!Elapse PROVE SpawnsIInv'
  OBVIOUS
<1>1. /\ UNCHANGED <<where, refs, spawn, spawnedMap, started, losses, refusals, missed>>
      /\ rest' = Respawn!Later
      /\ check' = check \/ (check = "timer" /\ check' = "task")
  BY DEF Respawn!CheckDue, Respawn!Elapse
<1>2. Fitting(where, refs, spawn, spawnedMap)'
  BY <1>1 DEF SpawnsIInv
<1>3. SpawnTyped /\ Respawn!Later \in [Blocks -> Nat]
  BY DEF SpawnsIInv, SpawnTyped, Respawn!Later
<1>4. SpawnTyped'
  BY <1>1, <1>3 DEF SpawnTyped
<1>5. LookedAfter'
  BY <1>1, SameCount DEF SpawnsIInv, LookedAfter, Respawn!Occupied, Respawn!SpawnedOf,
     Respawn!Alive, Respawn!Full
<1>6. QED
  BY <1>2, <1>4, <1>5 DEF SpawnsIInv

(* Who is lost without a check is remembered. *)
LEMMA ForgottenIsMissed ==
  ASSUME SpawnsIInv, Fitting(where, refs, spawn, spawnedMap)', Respawn!Forgotten, UNCHANGED <<check,
         started>>
  PROVE  LookedAfter'
<1> SUFFICES ASSUME check' = "none", NEW b \in Blocks, b \notin missed'
             PROVE  Respawn!Occupied(b)'
  BY DEF LookedAfter
<1>1. missed' = Respawn!Unfilled(spawnedMap')
  BY DEF Respawn!Forgotten
<1>2. PICK e \in spawnedMap' : e[1] = b /\ where'[e[2]] \notin Respawn!Gone
  BY <1>1 DEF Respawn!Unfilled, Respawn!Filled
<1>3. e[2] \in Monsters /\ refs'[e[2]] > 0
  BY DEF Fitting, HasEntry
<1>4. Living(where', e[2])
  BY <1>2, <1>3 DEF Fitting, Living, Respawn!Gone
<1>5. QED
  BY <1>2, <1>3, <1>4 DEF Respawn!Occupied, Respawn!SpawnedOf, Respawn!Alive, Living

(* Monster::onRemoveCreature. *)
LEMMA RemoveKeeps ==
  ASSUME SpawnsIInv, NEW m \in Monsters, Respawn!Remove(m)
  PROVE  SpawnsIInv'
<1>1. /\ started = "running" /\ Living(where, m)
      /\ where' = [where EXCEPT ![m] = "removed"]
      /\ UNCHANGED <<refs, spawn, spawnedMap, rest, started, refusals>>
  BY DEF Respawn!Remove, Respawn!Alive, Living
<1>2. losses' \in 0..MaxLosses
  BY SpawnsAssumption DEF Respawn!Remove, Respawn!Lost, SpawnsIInv, SpawnTyped
<1>3. Fitting(where, refs, spawn, spawnedMap)'
  <2>1. \A x \in Monsters : /\ Living(where', x) <=> Living(where, x) /\ x # m
                            /\ Living(where', x) \/ where'[x] = "removed"
                              <=> Living(where, x) \/ where[x] = "removed"
                            /\ where'[x] = "free" => where[x] = "free"
    BY <1>1 DEF SpawnsIInv, Fitting, Living
  <2>2. where' \in [Monsters -> {"free", "inside", "outside", "removed", "released"}]
    BY <1>1 DEF SpawnsIInv, Fitting
  <2>3. QED
    BY <1>1, <2>1, <2>2 DEF SpawnsIInv, Fitting
<1>4. /\ check' \in {"none", "timer", "task"} /\ missed' \subseteq Blocks
  BY DEF Respawn!Remove, Respawn!StartSpawnCheck, SpawnsIInv, SpawnTyped, Respawn!Forgotten,
         Respawn!Unfilled
<1>5. SpawnTyped'
  BY <1>1, <1>2, <1>4 DEF SpawnsIInv, SpawnTyped
<1>6. LookedAfter'
  <2>1. CASE m \in spawn /\ check' = Respawn!StartSpawnCheck
    BY <2>1 DEF LookedAfter, Respawn!StartSpawnCheck
  <2>2. CASE m \in spawn /\ UNCHANGED check /\ Respawn!Forgotten
    BY <1>1, <1>3, <2>2, ForgottenIsMissed
  <2>3. CASE m \notin spawn /\ UNCHANGED <<check, missed>>
    <3>1. \A e \in spawnedMap : e[2] # m
      BY <1>1, <2>3 DEF SpawnsIInv, Fitting, HasEntry
    <3>2. \A e \in spawnedMap : e[2] \in Respawn!Alive' <=> e[2] \in Respawn!Alive
      BY <1>1, <3>1 DEF Respawn!Alive, SpawnsIInv, Fitting
    <3>3. /\ \A b : Respawn!Occupied(b)' <=> Respawn!Occupied(b)
          /\ {e \in spawnedMap : e[2] \in Respawn!Alive'}
               = {e \in spawnedMap : e[2] \in Respawn!Alive}
      BY <1>1, <3>2 DEF Respawn!Occupied, Respawn!SpawnedOf
    <3>4. QED
      BY <1>1, <2>3, <3>3, SameCount DEF SpawnsIInv, LookedAfter, Respawn!Full
  <2>4. QED
    BY <2>1, <2>2, <2>3 DEF Respawn!Remove
<1>7. QED
  BY <1>3, <1>5, <1>6 DEF SpawnsIInv

(* Game::cleanup. *)
LEMMA CleanupKeeps ==
  ASSUME SpawnsIInv, NEW m \in Monsters, Respawn!Cleanup(m)
  PROVE  SpawnsIInv'
<1>1. /\ where[m] = "removed" /\ refs' = Respawn!Dropped({m})
      /\ where' = [Respawn!Freed(refs') EXCEPT ![m] = IF @ = "free" THEN "free" ELSE "released"]
      /\ UNCHANGED <<spawn, spawnedMap, rest, check, started, losses, refusals, missed>>
  BY DEF Respawn!Cleanup
<1>2. Fitting(where, refs, spawn, spawnedMap)
  BY DEF SpawnsIInv
<1>3. \A x \in Monsters : refs[x] \in 0..2
                         /\ where[x] \in {"free", "inside", "outside", "removed", "released"}
  BY <1>2 DEF Fitting
<1>4. refs[m] = (IF HasEntry(spawnedMap, m) THEN 1 ELSE 0) + 1
  BY <1>1, <1>2 DEF Fitting
<1>5. /\ refs'[m] = IF HasEntry(spawnedMap, m) THEN 1 ELSE 0
      /\ where'[m] = IF HasEntry(spawnedMap, m) THEN "released" ELSE "free"
  <2>1. refs'[m] = refs[m] - 1
    BY <1>1 DEF Respawn!Dropped
  <2>2. where'[m] = IF refs[m] > 0 /\ refs'[m] = 0 THEN "free" ELSE "released"
    BY <1>1 DEF Respawn!Freed
  <2>3. QED
    BY <1>4, <2>1, <2>2
<1>6. \A x \in Monsters \ {m} : refs'[x] = refs[x] /\ where'[x] = where[x]
  <2>1. \A x \in Monsters \ {m} : refs'[x] = refs[x]
    BY <1>1 DEF Respawn!Dropped
  <2>2. \A x \in Monsters \ {m} : where'[x] = IF refs[x] > 0 /\ refs'[x] = 0 THEN "free"
          ELSE where[x]
    BY <1>1 DEF Respawn!Freed
  <2>3. QED
    BY <1>3, <2>1, <2>2
<1>7. /\ refs' \in [Monsters -> 0..2]
      /\ where' \in [Monsters -> {"free", "inside", "outside", "removed", "released"}]
  <2>1. \A x \in Monsters : refs'[x] \in 0..2
                           /\ where'[x] \in {"free", "inside", "outside", "removed", "released"}
    BY <1>3, <1>5, <1>6
  <2>2. refs' = [x \in Monsters |-> refs'[x]] /\ where' = [x \in Monsters |-> where'[x]]
    BY <1>1 DEF Respawn!Dropped, Respawn!Freed
  <2>3. QED
    BY <2>1, <2>2
<1>8. \A x \in Monsters : Living(where', x) <=> Living(where, x)
  BY <1>1, <1>5, <1>6 DEF Living
<1>9. Fitting(where, refs, spawn, spawnedMap)'
  <2>1. ASSUME NEW x \in Monsters
        PROVE  /\ Living(where', x) => (x \in spawn' <=> HasEntry(spawnedMap', x))
               /\ refs'[x] = (IF HasEntry(spawnedMap', x) THEN 1 ELSE 0)
                             + (IF Living(where', x) \/ where'[x] = "removed" THEN 1 ELSE 0)
               /\ where'[x] = "free" => refs'[x] = 0
    <3>1. CASE x = m
      <4>1. ~Living(where', x) /\ where'[x] # "removed"
        BY <1>5, <3>1 DEF Living
      <4>2. QED
        BY <1>1, <1>5, <3>1, <4>1
    <3>2. CASE x # m
      BY <1>1, <1>2, <1>6, <1>8, <3>2 DEF Fitting
    <3>3. QED
      BY <3>1, <3>2
  <2>2. QED
    BY <1>1, <1>2, <1>7, <2>1 DEF Fitting
<1>10. SpawnTyped'
  BY <1>1 DEF SpawnsIInv, SpawnTyped
<1>11. LookedAfter'
  <2>1. Respawn!Alive' = Respawn!Alive
    BY <1>8 DEF Respawn!Alive, Living
  <2>2. QED
    BY <1>1, <2>1, SameCount DEF SpawnsIInv, LookedAfter, Respawn!Occupied, Respawn!SpawnedOf,
       Respawn!Full
<1>12. QED
  BY <1>9, <1>10, <1>11 DEF SpawnsIInv

(* Monster::convinceCreature. *)
LEMMA ConvinceKeeps ==
  ASSUME SpawnsIInv, NEW m \in Monsters, Respawn!Convince(m)
  PROVE  SpawnsIInv'
<1>1. /\ started = "running" /\ Living(where, m) /\ m \in spawn
      /\ spawnedMap' = spawnedMap \ Respawn!EntriesOf(m) /\ spawn' = spawn \ {m}
      /\ refs' = Respawn!Dropped({e[2] : e \in Respawn!EntriesOf(m)})
      /\ UNCHANGED <<where, rest, check, started, refusals>> /\ Respawn!Forgotten
  BY DEF Respawn!Convince, Respawn!Alive, Living
<1>2. losses' \in 0..MaxLosses
  BY SpawnsAssumption DEF Respawn!Convince, Respawn!Lost, SpawnsIInv, SpawnTyped
<1>3. Fitting(where, refs, spawn, spawnedMap)
  BY DEF SpawnsIInv
<1>4. HasEntry(spawnedMap, m) /\ refs[m] = 2
  BY <1>1, <1>3 DEF Fitting
<1>5. \A x \in Monsters : HasEntry(spawnedMap', x) <=> HasEntry(spawnedMap, x) /\ x # m
  BY <1>1 DEF HasEntry, Respawn!EntriesOf
<1>6. {e[2] : e \in Respawn!EntriesOf(m)} = {m}
  BY <1>4 DEF HasEntry, Respawn!EntriesOf
<1>7. refs' = [x \in Monsters |-> IF x = m THEN 1 ELSE refs[x]]
  BY <1>1, <1>4, <1>6 DEF Respawn!Dropped
<1>8. Fitting(where, refs, spawn, spawnedMap)'
  <2>1. ASSUME NEW x \in Monsters
        PROVE  /\ Living(where', x) => (x \in spawn' <=> HasEntry(spawnedMap', x))
               /\ refs'[x] = (IF HasEntry(spawnedMap', x) THEN 1 ELSE 0)
                             + (IF Living(where', x) \/ where'[x] = "removed" THEN 1 ELSE 0)
               /\ where'[x] = "free" => refs'[x] = 0
    <3>1. CASE x = m
      <4>1. Living(where', m) /\ ~HasEntry(spawnedMap', m) /\ refs'[m] = 1 /\ m \notin spawn'
            /\ where'[m] # "free"
        BY <1>1, <1>5, <1>7 DEF Living
      <4>2. QED
        BY <3>1, <4>1
    <3>2. CASE x # m
      BY <1>1, <1>3, <1>5, <1>7, <3>2 DEF Fitting
    <3>3. QED
      BY <3>1, <3>2
  <2>2. /\ refs' \in [Monsters -> 0..2] /\ spawn' \subseteq Monsters
        /\ spawnedMap' \subseteq spawnedMap
    BY <1>1, <1>3, <1>7 DEF Fitting
  <2>3. QED
    BY <1>1, <1>3, <2>1, <2>2 DEF Fitting
<1>9. missed' \subseteq Blocks
  BY <1>1 DEF SpawnsIInv, SpawnTyped, Respawn!Forgotten, Respawn!Unfilled
<1>10. SpawnTyped'
  BY <1>1, <1>2, <1>9 DEF SpawnsIInv, SpawnTyped
<1>11. LookedAfter'
  BY <1>1, <1>8, ForgottenIsMissed
<1>12. QED
  BY <1>8, <1>10, <1>11 DEF SpawnsIInv

(* A monster leaves the zone or comes back. *)
LEMMA WalkKeeps ==
  ASSUME SpawnsIInv, NEW m \in Monsters, Respawn!Walk(m)
  PROVE  SpawnsIInv'
<1>1. /\ Living(where, m)
      /\ where' = [where EXCEPT ![m] = IF @ = "inside" THEN "outside" ELSE "inside"]
      /\ UNCHANGED <<refs, spawn, spawnedMap, rest, check, started, losses, refusals, missed>>
  BY DEF Respawn!Walk, Respawn!Alive, Living
<1>2. \A x \in Monsters : /\ Living(where', x) <=> Living(where, x)
                          /\ where'[x] = "removed" <=> where[x] = "removed"
                          /\ where'[x] = "free" <=> where[x] = "free"
  BY <1>1 DEF SpawnsIInv, Fitting, Living
<1>3. where' \in [Monsters -> {"free", "inside", "outside", "removed", "released"}]
  BY <1>1 DEF SpawnsIInv, Fitting
<1>4. Fitting(where, refs, spawn, spawnedMap)'
  BY <1>1, <1>2, <1>3 DEF SpawnsIInv, Fitting
<1>5. Respawn!Alive' = Respawn!Alive
  BY <1>2 DEF Respawn!Alive, Living
<1>6. SpawnTyped' /\ LookedAfter'
  BY <1>1, <1>5, SameCount DEF SpawnsIInv, SpawnTyped, LookedAfter, Respawn!Occupied,
     Respawn!SpawnedOf, Respawn!Full
<1>7. QED
  BY <1>4, <1>6 DEF SpawnsIInv

(* Spawns::clear. *)
LEMMA ClearKeeps == SpawnsIInv /\ Respawn!Clear => SpawnsIInv'
<1> SUFFICES ASSUME SpawnsIInv, Respawn!Clear PROVE SpawnsIInv'
  OBVIOUS
<1> DEFINE ms == {e[2] : e \in spawnedMap}
           counts == Respawn!Dropped(ms)
<1>1. /\ started' = "cleared" /\ check' = "none" /\ spawnedMap' = {}
      /\ spawn' = spawn \ ms /\ refs' = counts /\ where' = Respawn!Freed(counts)
      /\ UNCHANGED <<rest, losses, refusals, missed>>
  BY DEF Respawn!Clear
<1>2. Fitting(where, refs, spawn, spawnedMap)
  BY DEF SpawnsIInv
<1>3. \A x \in Monsters : refs[x] \in 0..2
                         /\ where[x] \in {"free", "inside", "outside", "removed", "released"}
  BY <1>2 DEF Fitting
<1>4. \A x \in Monsters : x \in ms <=> HasEntry(spawnedMap, x)
  BY DEF HasEntry
<1> HIDE DEF ms
<1>5. \A x \in Monsters : /\ refs'[x] = IF x \in ms THEN refs[x] - 1 ELSE refs[x]
                          /\ where'[x] = IF refs[x] > 0 /\ refs'[x] = 0 THEN "free" ELSE where[x]
  BY <1>1 DEF Respawn!Dropped, Respawn!Freed
<1>6. ASSUME NEW x \in Monsters
      PROVE  /\ Living(where', x) => x \notin spawn'
             /\ refs'[x] = IF Living(where', x) \/ where'[x] = "removed" THEN 1 ELSE 0
             /\ where'[x] = "free" => refs'[x] = 0
             /\ refs'[x] \in 0..2
             /\ where'[x] \in {"free", "inside", "outside", "removed", "released"}
  <2>1. /\ Living(where, x) => (x \in spawn <=> HasEntry(spawnedMap, x))
        /\ refs[x] = (IF HasEntry(spawnedMap, x) THEN 1 ELSE 0)
                     + (IF Living(where, x) \/ where[x] = "removed" THEN 1 ELSE 0)
        /\ where[x] = "free" => refs[x] = 0
    BY <1>2 DEF Fitting
  <2>2. refs'[x] = IF Living(where, x) \/ where[x] = "removed" THEN 1 ELSE 0
    BY <1>4, <1>5, <2>1
  <2>3. Living(where', x) <=> Living(where, x)
    BY <1>5, <2>2 DEF Living
  <2>4. where'[x] = "removed" <=> where[x] = "removed"
    BY <1>5, <2>2
  <2>5. where'[x] = "free" => refs'[x] = 0
    BY <1>5, <2>1, <2>2 DEF Living
  <2>6. QED
    BY <1>1, <1>3, <1>4, <1>5, <2>1, <2>2, <2>3, <2>4, <2>5
<1>7. /\ refs' \in [Monsters -> 0..2]
      /\ where' \in [Monsters -> {"free", "inside", "outside", "removed", "released"}]
  <2>1. refs' = [x \in Monsters |-> refs'[x]] /\ where' = [x \in Monsters |-> where'[x]]
    BY <1>1 DEF Respawn!Dropped, Respawn!Freed
  <2>2. QED
    BY <1>6, <2>1
<1>8. Fitting(where, refs, spawn, spawnedMap)'
  <2>1. spawn' \subseteq Monsters /\ \A x : ~HasEntry(spawnedMap', x)
    BY <1>1, <1>2 DEF Fitting, HasEntry
  <2>2. QED
    BY <1>1, <1>6, <1>7, <2>1 DEF Fitting
<1>9. SpawnTyped' /\ LookedAfter'
  BY <1>1 DEF SpawnsIInv, SpawnTyped, LookedAfter
<1>10. QED
  BY <1>8, <1>9 DEF SpawnsIInv

LEMMA SpawnsStep == SpawnsIInv /\ [Respawn!Next]_(Respawn!vars) => SpawnsIInv'
<1> SUFFICES ASSUME SpawnsIInv, [Respawn!Next]_(Respawn!vars) PROVE SpawnsIInv'
  OBVIOUS
<1>1. CASE Respawn!Startup
  BY <1>1, StartupKeeps
<1>2. CASE Respawn!CheckSpawn
  BY <1>2, CheckSpawnKeeps
<1>3. CASE Respawn!CheckDue \/ Respawn!Elapse
  BY <1>3, TimeKeeps
<1>4. CASE Respawn!Clear
  BY <1>4, ClearKeeps
<1>5. CASE \E m \in Monsters : Respawn!Remove(m) \/ Respawn!Cleanup(m) \/ Respawn!Convince(m)
             \/ Respawn!Walk(m)
  BY <1>5, RemoveKeeps, CleanupKeeps, ConvinceKeeps, WalkKeeps
<1>6. CASE UNCHANGED Respawn!vars
  BY <1>6, SameCount DEF Respawn!vars, SpawnsIInv, SpawnTyped, LookedAfter, Respawn!Occupied,
     Respawn!SpawnedOf, Respawn!Alive, Respawn!Full
<1>7. QED
  BY <1>1, <1>2, <1>3, <1>4, <1>5, <1>6 DEF Respawn!Next

(* The invariant says what SpawnsInv counts. *)
LEMMA SpawnsKept == SpawnsIInv => Respawn!SpawnsInv
<1> SUFFICES ASSUME SpawnsIInv PROVE Respawn!SpawnsInv
  OBVIOUS
<1>1. Fitting(where, refs, spawn, spawnedMap) /\ SpawnTyped
  BY DEF SpawnsIInv
<1>2. Respawn!TypeOK
  BY <1>1 DEF Respawn!TypeOK, Fitting, SpawnTyped, Respawn!Gone
<1>3. ASSUME NEW S, NEW T, T \subseteq S, \A e, f \in T : e = f
      PROVE  Cardinality(T) = IF T = {} THEN 0 ELSE 1
  <2>1. CASE T = {}
    BY <2>1, FS_EmptySet
  <2>2. CASE T # {}
    <3>1. PICK e \in T : TRUE
      BY <2>2
    <3>2. T = {e}
      BY <1>3, <3>1
    <3>3. Cardinality({e}) = 1
      BY FS_Singleton
    <3>4. QED
      BY <2>2, <3>2, <3>3
  <2>3. QED
    BY <2>1, <2>2
<1>4. ASSUME NEW m \in Monsters
      PROVE  Cardinality(Respawn!EntriesOf(m)) = IF HasEntry(spawnedMap, m) THEN 1 ELSE 0
  <2>1. /\ Respawn!EntriesOf(m) \subseteq spawnedMap /\ \A e, f \in Respawn!EntriesOf(m) : e = f
        /\ Respawn!EntriesOf(m) = {} <=> ~HasEntry(spawnedMap, m)
    BY <1>1 DEF Respawn!EntriesOf, HasEntry, Fitting
  <2>2. QED
    BY <1>3, <2>1
<1>5. ASSUME NEW b \in Blocks PROVE Cardinality(Respawn!SpawnedOf(b)) <= 1
  <2>1. Respawn!SpawnedOf(b) \subseteq spawnedMap /\ \A e, f \in Respawn!SpawnedOf(b) : e = f
    BY <1>1 DEF Respawn!SpawnedOf, Fitting
  <2>2. Cardinality(Respawn!SpawnedOf(b)) = IF Respawn!SpawnedOf(b) = {} THEN 0 ELSE 1
    BY <1>3, <2>1
  <2>3. QED
    BY <2>2
<1>6. \A m \in Monsters :
        /\ Cardinality(Respawn!EntriesOf(m)) <= 1
        /\ m \in Respawn!Alive => (m \in spawn <=> Respawn!EntriesOf(m) # {})
        /\ refs[m] = Cardinality(Respawn!EntriesOf(m))
                     + (IF m \in Respawn!Alive \/ where[m] = "removed" THEN 1 ELSE 0)
        /\ where[m] = "free" => refs[m] = 0
  <2>1. \A m \in Monsters : (m \in Respawn!Alive <=> Living(where, m))
                           /\ (Respawn!EntriesOf(m) # {} <=> HasEntry(spawnedMap, m))
    BY DEF Respawn!Alive, Living, Respawn!EntriesOf, HasEntry
  <2>2. QED
    BY <1>1, <1>4, <2>1 DEF Fitting
<1>7. QED
  BY <1>2, <1>5, <1>6, SameCount DEF Respawn!SpawnsInv, SpawnsIInv, LookedAfter

-----------------------------------------------------------------------------
(* Raids.  Whatever is late, each load adds one chain of checks and, since   *)
(* a raid only starts when none is running and its end makes room for the    *)
(* next, one chain of events: that bounds what is pending, and so the        *)
(* number a new event gets is a free one.                                    *)

(* An event as the scheduler and the dispatcher hold it. *)
EventRecords ==
  [id : Raiding!Ids, raid : Raiding!AllRaids \cup {NoRaid}, event : Nat, due : BOOLEAN,
    current : BOOLEAN]

(* How many events there can be. *)
Chains == 2 * load + (IF running = NoRaid THEN 1 ELSE 2)

(* nextEvent is the number of an event, or back at the start. *)
AtAnEvent(raid) == next[raid] = 0 \/ Raiding!HasEvent(raid, next[raid])

RaidsTyped ==
  /\ load \in 0..MaxReloads
  /\ loaded \in BOOLEAN /\ (~loaded => raidList = {} /\ running = NoRaid)
  /\ raidList \subseteq Raiding!Loaded(load)
  /\ deleted \subseteq Raiding!AllRaids /\ \A r \in deleted : r[2] < load
  /\ running \in Raiding!AllRaids \cup {NoRaid}
  /\ next \in [Raiding!AllRaids -> Nat] /\ \A r \in Raiding!AllRaids : AtAnEvent(r)
  /\ pending \subseteq EventRecords
  /\ IsFiniteSet(pending) /\ Cardinality(pending) <= Chains
  /\ alive \in BOOLEAN /\ late \in BOOLEAN

(* Somebody makes the checks, if the raids are loaded, and the running raid  *)
(* go on.                                                                   *)
GoesOn ==
  alive =>
    /\ loaded => \E p \in pending : p.raid = NoRaid
    /\ running # NoRaid => (\E p \in pending : p.raid = running) \/ ~Raiding!HasEvent(running, 0)

(* Without a late reload stopEvent reaches every event. *)
Timely(ps, run, nx) ==
  /\ \A p \in ps : p.current
  /\ \A p, q \in ps : p.raid = NoRaid /\ q.raid = NoRaid => p = q
  /\ \A p, q \in ps : p.raid # NoRaid /\ q.raid # NoRaid => p = q
  /\ \A p \in ps : p.raid # NoRaid => p.raid = run /\ p.event = nx[p.raid]

InTime ==
  ~late =>
    /\ alive
    /\ Timely(pending, running, next)
    /\ ~loaded => \A p \in pending : p.raid # NoRaid
    /\ \A p \in pending : p.raid # NoRaid => p.raid \notin deleted

RaidsIInv == RaidsTyped /\ GoesOn /\ InTime

(* A set has no more images than elements. *)
LEMMA ImageSize ==
  ASSUME NEW S, IsFiniteSet(S), NEW f, f = [x \in S |-> f[x]]
  PROVE  LET T == {f[x] : x \in S}
         IN IsFiniteSet(T) /\ Cardinality(T) <= Cardinality(S)
<1> DEFINE T == {f[x] : x \in S}
<1>1. f \in Surjection(S, T)
  BY DEF Surjection
<1>2. QED
  BY <1>1, FS_Surjection

(* There is a number for one more event. *)
LEMMA NumberFree ==
  ASSUME NEW ps \in SUBSET EventRecords, IsFiniteSet(ps),
         Cardinality(ps) < 2 * (MaxReloads + 1)
  PROVE  Raiding!FreeId(ps) \in Raiding!Ids
<1> DEFINE number == [p \in ps |-> p.id]
           numbers == {number[p] : p \in ps}
<1>1. IsFiniteSet(numbers) /\ Cardinality(numbers) <= Cardinality(ps)
  <2>1. number = [p \in ps |-> number[p]]
    OBVIOUS
  <2> HIDE DEF number
  <2>2. QED
    BY <2>1, ImageSize
<1>2. IsFiniteSet(Raiding!Ids) /\ Cardinality(Raiding!Ids) = 2 * (MaxReloads + 1)
  BY RaidsAssumption, FS_Interval DEF Raiding!Ids
<1>3. Cardinality(ps) \in Nat /\ Cardinality(numbers) \in Nat
  BY <1>1, FS_CardinalityType
<1>4. ~(Raiding!Ids \subseteq numbers)
  <2>1. ASSUME Raiding!Ids \subseteq numbers PROVE FALSE
    <3>1. Cardinality(Raiding!Ids) <= Cardinality(numbers)
      BY <1>1, <2>1, FS_Subset
    <3>2. QED
      BY <1>1, <1>2, <1>3, <3>1, RaidsAssumption
  <2>2. QED
    BY <2>1
<1>5. PICK i \in Raiding!Ids : i \notin numbers
  BY <1>4
<1>6. \A p \in ps : p.id # i
  BY <1>5
<1>7. QED
  BY <1>6 DEF Raiding!FreeId

(* What addEvent makes of the events. *)
LEMMA ScheduledEvents ==
  ASSUME NEW ps \in SUBSET EventRecords, IsFiniteSet(ps),
         Cardinality(ps) < 2 * (MaxReloads + 1),
         NEW raid \in Raiding!AllRaids \cup {NoRaid}, NEW event \in Nat
  PROVE  LET all == Raiding!Scheduled(ps, raid, event)
         IN /\ all \subseteq EventRecords
            /\ IsFiniteSet(all) /\ Cardinality(all) <= Cardinality(ps) + 1
            /\ \A q \in ps : \E p \in all : p.raid = q.raid
            /\ \E p \in all : p.raid = raid
            /\ \A p \in all : \/ /\ p.raid = raid /\ p.event = event /\ p.current
                              \/ \E q \in ps : p = Raiding!Forgotten(q, raid)
            /\ \A p, q \in all :
                 p.raid = raid /\ q.raid = raid /\ (\A r \in ps : r.raid # raid) => p = q
<1> DEFINE new == [id |-> Raiding!FreeId(ps), raid |-> raid, event |-> event, due |-> FALSE,
                   current |-> TRUE]
           Change(p) == Raiding!Forgotten(p, raid)
           change == [p \in ps |-> Change(p)]
           old == {change[p] : p \in ps}
<1>1. Raiding!FreeId(ps) \in Raiding!Ids
  BY NumberFree
<1>2. new \in EventRecords /\ new.raid = raid /\ new.event = event /\ new.current
  BY <1>1 DEF EventRecords
<1>3. \A p \in ps : Change(p) \in EventRecords /\ Change(p).raid = p.raid
  BY DEF Raiding!Forgotten, EventRecords
<1>4. IsFiniteSet(old) /\ Cardinality(old) <= Cardinality(ps)
  <2>1. change = [p \in ps |-> change[p]]
    OBVIOUS
  <2> HIDE DEF change
  <2>2. QED
    BY <2>1, ImageSize
<1>5. Cardinality(ps) \in Nat /\ Cardinality(old) \in Nat
  BY <1>4, FS_CardinalityType
<1>6. IsFiniteSet(old \cup {new}) /\ Cardinality(old \cup {new}) <= Cardinality(ps) + 1
  <2> HIDE DEF old, new
  <2>1. /\ IsFiniteSet(old \cup {new})
        /\ Cardinality(old \cup {new})
           = IF new \in old THEN Cardinality(old) ELSE Cardinality(old) + 1
    BY <1>4, FS_AddElement
  <2>2. QED
    BY <1>4, <1>5, <2>1
<1>7. Raiding!Scheduled(ps, raid, event) = old \cup {new}
  BY DEF Raiding!Scheduled
<1> HIDE DEF new
<1>8. \A p \in old \cup {new} : p = new \/ \E q \in ps : p = Raiding!Forgotten(q, raid)
  OBVIOUS
<1>9. \A q \in ps : Change(q) \in old
  OBVIOUS
<1> HIDE DEF old
<1>10. \A p, q \in old \cup {new} :
         p.raid = raid /\ q.raid = raid /\ (\A r \in ps : r.raid # raid) => p = q
  BY <1>3, <1>8
<1>11. QED
  BY <1>2, <1>3, <1>6, <1>7, <1>8, <1>9, <1>10

(* An event that is forgotten keeps all but its number's use. *)
LEMMA ForgottenEvent ==
  ASSUME NEW q \in EventRecords, NEW raid
  PROVE  /\ Raiding!Forgotten(q, raid) \in EventRecords
         /\ Raiding!Forgotten(q, raid).raid = q.raid /\ Raiding!Forgotten(q, raid).event = q.event
         /\ q.raid # raid => Raiding!Forgotten(q, raid) = q
BY DEF Raiding!Forgotten, EventRecords

LEMMA RaidsInitially == Raiding!Init => RaidsIInv
<1> SUFFICES ASSUME Raiding!Init PROVE RaidsIInv
  OBVIOUS
<1>1. IsFiniteSet({}) /\ Cardinality({}) = 0
  BY FS_EmptySet
<1> DEFINE all == Raiding!Scheduled({}, NoRaid, Raiding!NoEvent)
<1>2. /\ all \subseteq EventRecords /\ IsFiniteSet(all) /\ Cardinality(all) <= 1
      /\ \E p \in all : p.raid = NoRaid
      /\ \A p \in all : p.raid = NoRaid /\ p.current
      /\ \A p, q \in all : p.raid = NoRaid /\ q.raid = NoRaid => p = q
  <2>1. {} \in SUBSET EventRecords /\ 0 < 2 * (MaxReloads + 1) /\ Raiding!NoEvent \in Nat
    BY RaidsAssumption DEF Raiding!NoEvent
  <2> HIDE DEF all
  <2>2. /\ all \subseteq EventRecords
        /\ IsFiniteSet(all) /\ Cardinality(all) <= Cardinality({}) + 1
        /\ \E p \in all : p.raid = NoRaid
        /\ \A p \in all : \/ p.raid = NoRaid /\ p.event = Raiding!NoEvent /\ p.current
                          \/ \E q \in {} : p = Raiding!Forgotten(q, NoRaid)
        /\ \A p, q \in all :
             p.raid = NoRaid /\ q.raid = NoRaid /\ (\A r \in {} : r.raid # NoRaid) => p = q
    BY <1>1, <2>1, ScheduledEvents DEF all
  <2>3. QED
    BY <1>1, <2>2
<1>3. pending = IF loaded THEN all ELSE {}
  BY DEF Raiding!Init, Raiding!Startup
<1> HIDE DEF all
<1>4. RaidsTyped
  <2>1. load = 0 /\ running = NoRaid /\ Chains = 1
    BY DEF Raiding!Init, Chains
  <2>2. \A r \in Raiding!AllRaids : next[r] = 0
    BY DEF Raiding!Init
  <2>3. /\ raidList \subseteq Raiding!Loaded(load) /\ deleted = {}
        /\ next \in [Raiding!AllRaids -> Nat]
        /\ loaded \in BOOLEAN /\ (~loaded => raidList = {})
    BY <2>1 DEF Raiding!Init, Raiding!Loadable
  <2>4. load \in 0..MaxReloads /\ alive \in BOOLEAN /\ late \in BOOLEAN
    <3>1. load \in 0..MaxReloads
      BY <2>1, RaidsAssumption
    <3>2. alive = TRUE /\ late = FALSE
      BY DEF Raiding!Init
    <3>3. QED
      BY <3>1, <3>2
  <2>5. IsFiniteSet(pending) /\ Cardinality(pending) <= Chains
    BY <1>1, <1>2, <1>3, <2>1
  <2>6. \A r \in deleted : r[2] < load
    BY <2>3
  <2>7. QED
    BY <1>2, <1>3, <2>1, <2>2, <2>3, <2>4, <2>5, <2>6 DEF RaidsTyped, AtAnEvent
<1>5. GoesOn /\ InTime
  BY <1>2, <1>3 DEF Raiding!Init, GoesOn, InTime, Timely
<1>6. QED
  BY <1>4, <1>5 DEF RaidsIInv

(* Events that may take the place of the pending ones. *)
Fit(ps) ==
  /\ ps \subseteq EventRecords
  /\ IsFiniteSet(ps) /\ Cardinality(ps) <= Cardinality(pending)
  /\ \A q \in pending : \E p \in ps : p.raid = q.raid
  /\ ~late => /\ Timely(ps, running, next)
              /\ ~loaded => \A p \in ps : p.raid # NoRaid
              /\ \A p \in ps : p.raid # NoRaid => p.raid \notin deleted

(* The numbers that count. *)
LEMMA Counts ==
  ASSUME RaidsTyped
  PROVE  /\ load \in Nat /\ MaxReloads \in Nat /\ load <= MaxReloads
         /\ Cardinality(pending) \in Nat /\ Chains \in Nat
         /\ Chains <= 2 * load + 2 /\ (running = NoRaid => Chains = 2 * load + 1)
         /\ Cardinality(pending) <= Chains
BY RaidsAssumption, FS_CardinalityType DEF RaidsTyped, Chains

(* One event less. *)
LEMMA Without ==
  ASSUME RaidsTyped, NEW p \in pending
  PROVE  /\ pending \ {p} \in SUBSET EventRecords /\ IsFiniteSet(pending \ {p})
         /\ Cardinality(pending \ {p}) \in Nat
         /\ Cardinality(pending \ {p}) = Cardinality(pending) - 1
         /\ Cardinality(pending \ {p}) < 2 * (MaxReloads + 1)
<1>1. IsFiniteSet(pending) /\ pending \subseteq EventRecords
  BY DEF RaidsTyped
<1>2. /\ IsFiniteSet(pending \ {p})
      /\ Cardinality(pending \ {p})
         = IF p \in pending THEN Cardinality(pending) - 1 ELSE Cardinality(pending)
  BY <1>1, FS_RemoveElement
<1>3. Cardinality(pending \ {p}) \in Nat
  BY <1>2, FS_CardinalityType
<1>4. QED
  BY <1>1, <1>2, <1>3, Counts

(* The check of the next minute takes the place of this one. *)
LEMMA AgainFits ==
  ASSUME RaidsIInv, NEW p \in pending, p.raid = NoRaid
  PROVE  Fit(Raiding!Scheduled(pending \ {p}, NoRaid, Raiding!NoEvent))
<1> DEFINE ps == pending \ {p}
           all == Raiding!Scheduled(ps, NoRaid, Raiding!NoEvent)
<1>0. RaidsTyped /\ InTime
  BY DEF RaidsIInv
<1>1. /\ ps \in SUBSET EventRecords /\ IsFiniteSet(ps) /\ Cardinality(ps) \in Nat
      /\ Cardinality(ps) = Cardinality(pending) - 1 /\ Cardinality(ps) < 2 * (MaxReloads + 1)
  BY <1>0, Without
<1>2. Raiding!NoEvent \in Nat
  BY DEF Raiding!NoEvent
<1> HIDE DEF ps
<1>3. /\ all \subseteq EventRecords
      /\ IsFiniteSet(all) /\ Cardinality(all) <= Cardinality(ps) + 1
      /\ \A q \in ps : \E r \in all : r.raid = q.raid
      /\ \E r \in all : r.raid = NoRaid
      /\ \A r \in all : \/ r.raid = NoRaid /\ r.event = Raiding!NoEvent /\ r.current
                        \/ \E q \in ps : r = Raiding!Forgotten(q, NoRaid)
      /\ \A r, q \in all :
           r.raid = NoRaid /\ q.raid = NoRaid /\ (\A x \in ps : x.raid # NoRaid) => r = q
  BY <1>1, <1>2, ScheduledEvents
<1> HIDE DEF all
<1>4. IsFiniteSet(all) /\ Cardinality(all) <= Cardinality(pending)
  <2>1. Cardinality(all) \in Nat
    BY <1>3, FS_CardinalityType
  <2>2. QED
    BY <1>0, <1>1, <1>3, <2>1, Counts
<1>5. \A q \in pending : \E r \in all : r.raid = q.raid
  BY <1>3 DEF ps
<1>6. ASSUME ~late
      PROVE  /\ Timely(all, running, next) /\ loaded
             /\ \A r \in all : r.raid # NoRaid => r.raid \notin deleted
  <2>1. \A x \in ps : x.raid # NoRaid /\ x \in pending /\ Raiding!Forgotten(x, NoRaid) = x
    BY <1>0, <1>1, <1>6, ForgottenEvent DEF InTime, Timely, ps
  <2>2. \A r \in all : r.raid # NoRaid => r \in pending
    BY <1>3, <2>1
  <2>3. \A r \in all : r.current
    BY <1>0, <1>3, <1>6, <2>1 DEF InTime, Timely
  <2>4. QED
    BY <1>0, <1>3, <1>6, <2>1, <2>2, <2>3 DEF InTime, Timely
<1>7. QED
  BY <1>3, <1>4, <1>5, <1>6 DEF Fit, all, ps

(* The raids of the list. *)
LEMMA OfThisLoad ==
  ASSUME RaidsTyped, NEW raid \in raidList
  PROVE  raid \in Raiding!AllRaids /\ raid # NoRaid /\ raid \notin deleted
BY RaidsAssumption DEF RaidsTyped, Raiding!Loaded, Raiding!AllRaids

(* A raid starts when none is running. *)
LEMMA Started ==
  ASSUME RaidsIInv, running = NoRaid, NEW raid \in raidList, NEW ps, Fit(ps),
         Raiding!Start(raid, ps),
         raidList' \subseteq raidList, UNCHANGED <<load, loaded, deleted, next, alive, late>>
  PROVE  RaidsIInv'
<1>0. RaidsTyped /\ GoesOn /\ InTime
  BY DEF RaidsIInv
<1>1. raid \in Raiding!AllRaids /\ raid # NoRaid /\ raid \notin deleted /\ loaded
  BY <1>0, OfThisLoad DEF RaidsTyped
<1>2. /\ ps \in SUBSET EventRecords /\ IsFiniteSet(ps) /\ Cardinality(ps) \in Nat
      /\ Cardinality(ps) <= 2 * load + 1
  BY <1>0, Counts, FS_CardinalityType DEF Fit
<1>3. running' = raid /\ Chains' = 2 * load + 2
  BY <1>1 DEF Raiding!Start, Chains
<1>4. next[raid] \in Nat /\ AtAnEvent(raid)
  BY <1>0, <1>1 DEF RaidsTyped
<1>5. ~late => \A p \in ps : p.raid = NoRaid /\ p.current /\ Raiding!Forgotten(p, raid) = p
  BY <1>1, <1>2, ForgottenEvent DEF Fit, Timely
<1>7. CASE Raiding!HasEvent(raid, next[raid])
  <2> DEFINE all == Raiding!Scheduled(ps, raid, next[raid])
  <2>1. Cardinality(ps) < 2 * (MaxReloads + 1)
    BY <1>0, <1>2, Counts
  <2>2. /\ all \subseteq EventRecords
        /\ IsFiniteSet(all) /\ Cardinality(all) <= Cardinality(ps) + 1
        /\ \A q \in ps : \E p \in all : p.raid = q.raid
        /\ \E p \in all : p.raid = raid
        /\ \A p \in all : \/ p.raid = raid /\ p.event = next[raid] /\ p.current
                          \/ \E q \in ps : p = Raiding!Forgotten(q, raid)
        /\ \A p, q \in all :
             p.raid = raid /\ q.raid = raid /\ (\A r \in ps : r.raid # raid) => p = q
    BY <1>1, <1>2, <1>4, <2>1, ScheduledEvents
  <2>3. pending' = all
    BY <1>7 DEF Raiding!Start
  <2> HIDE DEF all
  <2>4. IsFiniteSet(pending') /\ Cardinality(pending') <= Chains'
    <3>1. Cardinality(all) \in Nat
      BY <2>2, FS_CardinalityType
    <3>2. QED
      BY <1>0, <1>2, <1>3, <2>2, <2>3, <3>1, Counts
  <2>5. RaidsTyped'
    BY <1>0, <1>1, <1>3, <2>2, <2>3, <2>4 DEF RaidsTyped, AtAnEvent
  <2>6. GoesOn'
    BY <1>0, <1>3, <2>2, <2>3 DEF GoesOn, Fit
  <2>7. InTime'
    <3>1. ASSUME ~late PROVE Timely(all, raid, next)
      <4>1. \A p \in all : \/ p.raid = raid /\ p.event = next[raid] /\ p.current
                           \/ p \in ps /\ p.raid = NoRaid /\ p.current
        <5>1. \A q \in ps : /\ Raiding!Forgotten(q, raid) \in ps
                /\ Raiding!Forgotten(q, raid).raid = NoRaid
                            /\ Raiding!Forgotten(q, raid).current
          BY <1>5, <3>1
        <5>2. QED
          BY <2>2, <5>1
      <4>2. \A p, q \in ps : p = q
        BY <1>5, <3>1 DEF Fit, Timely
      <4>3. \A p, q \in all : p.raid = raid /\ q.raid = raid => p = q
        BY <1>1, <1>5, <2>2, <3>1
      <4>4. QED
        BY <1>1, <4>1, <4>2, <4>3 DEF Timely
    <3>2. QED
      BY <1>0, <1>1, <1>3, <2>3, <3>1 DEF InTime, Timely
  <2>8. QED
    BY <2>5, <2>6, <2>7 DEF RaidsIInv
<1>8. CASE ~Raiding!HasEvent(raid, next[raid])
  <2>1. pending' = ps /\ ~Raiding!HasEvent(raid, 0)
    BY <1>4, <1>8 DEF Raiding!Start, AtAnEvent
  <2>2. RaidsTyped'
    BY <1>0, <1>1, <1>2, <1>3, <2>1, Counts DEF RaidsTyped, AtAnEvent
  <2>3. GoesOn'
    BY <1>0, <1>3, <2>1 DEF GoesOn, Fit
  <2>4. InTime'
    BY <1>0, <1>3, <1>5, <2>1 DEF InTime, Timely, Fit
  <2>5. QED
    BY <2>2, <2>3, <2>4 DEF RaidsIInv
<1>9. QED
  BY <1>7, <1>8

LEMMA PendingFits == RaidsIInv => Fit(pending)
BY Counts DEF RaidsIInv, RaidsTyped, InTime, Fit

(* Raids::checkRaids. *)
LEMMA CheckRaidsKeeps == RaidsIInv /\ Raiding!CheckRaids => RaidsIInv'
<1> SUFFICES ASSUME RaidsIInv, Raiding!CheckRaids PROVE RaidsIInv'
  OBVIOUS
<1>1. PICK p \in pending :
        /\ p.raid = NoRaid
        /\ LET again == Raiding!Scheduled(pending \ {p}, NoRaid, Raiding!NoEvent) IN
           \/ pending' = again /\ UNCHANGED <<running, raidList>>
           \/ \E raid \in raidList :
                /\ Raiding!MayStart
                /\ Raiding!Start(raid, again)
                /\ raidList' = IF raid[1] \in Repeats THEN raidList ELSE raidList \ {raid}
  BY DEF Raiding!CheckRaids
<1> DEFINE again == Raiding!Scheduled(pending \ {p}, NoRaid, Raiding!NoEvent)
<1>2. UNCHANGED <<load, loaded, deleted, next, alive, late>>
  BY DEF Raiding!CheckRaids
<1>3. Fit(again)
  BY <1>1, AgainFits
<1> HIDE DEF again
<1>4. CASE pending' = again /\ UNCHANGED <<running, raidList>>
  <2>0. RaidsTyped /\ GoesOn /\ InTime
    BY DEF RaidsIInv
  <2>1. Cardinality(pending') <= Chains' /\ IsFiniteSet(pending')
    <3>1. Cardinality(again) \in Nat
      BY <1>3, FS_CardinalityType DEF Fit
    <3>2. QED
      BY <1>2, <1>3, <1>4, <2>0, <3>1, Counts DEF Fit, Chains
  <2>2. RaidsTyped'
    BY <1>2, <1>3, <1>4, <2>0, <2>1 DEF RaidsTyped, AtAnEvent, Fit
  <2>3. GoesOn'
    BY <1>2, <1>3, <1>4, <2>0 DEF GoesOn, Fit
  <2>4. InTime'
    BY <1>2, <1>3, <1>4, <2>0 DEF InTime, Fit, Timely
  <2>5. QED
    BY <2>2, <2>3, <2>4 DEF RaidsIInv
<1>5. CASE \E raid \in raidList :
             /\ Raiding!MayStart
             /\ Raiding!Start(raid, again)
             /\ raidList' = IF raid[1] \in Repeats THEN raidList ELSE raidList \ {raid}
  BY <1>2, <1>3, <1>5, Started DEF Raiding!MayStart
<1>6. QED
  BY <1>1, <1>4, <1>5 DEF again

(* luaGameStartRaid. *)
LEMMA StartRaidKeeps == RaidsIInv /\ Raiding!StartRaid => RaidsIInv'
BY PendingFits, Started DEF Raiding!StartRaid

(* An event of a raid that was not deleted. *)
LEMMA ExecuteKeeps ==
  ASSUME RaidsIInv, NEW p \in pending, p.raid \in Raiding!AllRaids, NEW succeeds \in BOOLEAN,
         Raiding!Execute(p, succeeds), UNCHANGED <<load, loaded, raidList, deleted, alive, late>>
  PROVE  RaidsIInv'
<1> DEFINE raid == p.raid
           n == next[raid] + 1
           ps == pending \ {p}
<1>0. RaidsTyped /\ GoesOn /\ InTime /\ raid # NoRaid
  BY RaidsAssumption DEF RaidsIInv
<1>1. /\ ps \in SUBSET EventRecords /\ IsFiniteSet(ps) /\ Cardinality(ps) \in Nat
      /\ Cardinality(ps) = Cardinality(pending) - 1 /\ Cardinality(ps) < 2 * (MaxReloads + 1)
  BY <1>0, Without
<1>2. n \in Nat /\ next \in [Raiding!AllRaids -> Nat]
  BY <1>0 DEF RaidsTyped
<1>3. ~late => /\ \A q \in ps : q.raid = NoRaid /\ q.current /\ Raiding!Forgotten(q, raid) = q
               /\ \A q, r \in ps : q = r
               /\ running = raid /\ raid \notin deleted
  BY <1>0, <1>1, ForgottenEvent DEF InTime, Timely
<1>4. CASE succeeds /\ Raiding!HasEvent(raid, n)
  <2> DEFINE all == Raiding!Scheduled(ps, raid, n)
  <2>1. next' = [next EXCEPT ![raid] = n] /\ pending' = all /\ running' = running
    BY <1>4 DEF Raiding!Execute
  <2> HIDE DEF ps, n
  <2>2. /\ all \subseteq EventRecords
        /\ IsFiniteSet(all) /\ Cardinality(all) <= Cardinality(ps) + 1
        /\ \A q \in ps : \E r \in all : r.raid = q.raid
        /\ \E r \in all : r.raid = raid
        /\ \A r \in all : \/ r.raid = raid /\ r.event = n /\ r.current
                          \/ \E q \in ps : r = Raiding!Forgotten(q, raid)
        /\ \A r, q \in all :
             r.raid = raid /\ q.raid = raid /\ (\A x \in ps : x.raid # raid) => r = q
    BY <1>0, <1>1, <1>2, ScheduledEvents
  <2> HIDE DEF all
  <2>3. IsFiniteSet(pending') /\ Cardinality(pending') <= Chains'
    <3>1. Cardinality(all) \in Nat
      BY <2>2, FS_CardinalityType
    <3>2. Chains' = Chains
      BY <2>1 DEF Chains
    <3>3. QED
      BY <1>0, <1>1, <2>1, <2>2, <3>1, <3>2, Counts
  <2>4. next' \in [Raiding!AllRaids -> Nat] /\ next'[raid] = n
          /\ \A r \in Raiding!AllRaids : AtAnEvent(r)'
    BY <1>0, <1>2, <1>4, <2>1 DEF RaidsTyped, AtAnEvent, Raiding!HasEvent, n
  <2>5. RaidsTyped'
    BY <1>0, <2>1, <2>2, <2>3, <2>4 DEF RaidsTyped
  <2>6. \A q \in pending : \E r \in pending' : r.raid = q.raid
    BY <2>1, <2>2 DEF ps
  <2>7. GoesOn'
    BY <1>0, <2>1, <2>6 DEF GoesOn
  <2>8. InTime'
    <3>1. ASSUME ~late PROVE Timely(all, running, next') /\ \A r \in all : r.raid # NoRaid
                 => r.raid = raid
      <4>1. \A r \in all : \/ r.raid = raid /\ r.event = n /\ r.current
                           \/ r \in ps /\ r.raid = NoRaid /\ r.current
        <5>1. \A q \in ps : /\ Raiding!Forgotten(q, raid) \in ps
                /\ Raiding!Forgotten(q, raid).raid = NoRaid
                            /\ Raiding!Forgotten(q, raid).current
          BY <1>3, <3>1
        <5>2. QED
          BY <2>2, <5>1
      <4>2. \A r, q \in all : r.raid = raid /\ q.raid = raid => r = q
        BY <1>0, <1>3, <2>2, <3>1
      <4>3. QED
        BY <1>0, <1>3, <2>4, <3>1, <4>1, <4>2 DEF Timely
    <3>2. ASSUME ~late, ~loaded PROVE \A r \in all : r.raid # NoRaid
      <4>1. \A q \in ps : q.raid # NoRaid
        BY <1>0, <3>2 DEF InTime, ps
      <4>2. QED
        BY <1>0, <1>3, <2>2, <3>2, <4>1
    <3>3. QED
      BY <1>0, <1>3, <2>1, <3>1, <3>2 DEF InTime, Timely
  <2>9. QED
    BY <2>5, <2>7, <2>8 DEF RaidsIInv
<1>5. CASE ~(succeeds /\ Raiding!HasEvent(raid, n))
  <2>1. next' = [next EXCEPT ![raid] = 0] /\ pending' = ps /\ running' = NoRaid
    BY <1>5 DEF Raiding!Execute, Raiding!AfterReset
  <2>2. Chains' = 2 * load + 1
    BY <2>1 DEF Chains
  <2>3. next' \in [Raiding!AllRaids -> Nat] /\ \A r \in Raiding!AllRaids : AtAnEvent(r)'
    BY <1>0, <1>2, <2>1 DEF RaidsTyped, AtAnEvent, Raiding!HasEvent
  <2>4. RaidsTyped'
    BY <1>0, <1>1, <2>1, <2>2, <2>3, Counts DEF RaidsTyped
  <2>5. GoesOn'
    BY <1>0, <2>1 DEF GoesOn
  <2>6. InTime'
    BY <1>0, <1>3, <2>1 DEF InTime, Timely
  <2>7. QED
    BY <2>4, <2>5, <2>6 DEF RaidsIInv
<1>6. QED
  BY <1>4, <1>5

(* Raid::executeRaidEvent, also on a raid that is gone. *)
LEMMA ExecuteRaidEventKeeps ==
  ASSUME RaidsIInv, NEW raid \in Raiding!AllRaids, Raiding!ExecuteRaidEvent(raid)
  PROVE  RaidsIInv'
<1>1. PICK p \in pending, succeeds \in BOOLEAN :
        /\ p.raid = raid
        /\ IF raid \in deleted
           THEN alive' = FALSE /\ UNCHANGED <<running, next, pending>>
           ELSE Raiding!Execute(p, succeeds) /\ UNCHANGED alive
  BY DEF Raiding!ExecuteRaidEvent
<1>2. UNCHANGED <<load, loaded, raidList, deleted, late>>
  BY DEF Raiding!ExecuteRaidEvent
<1>3. CASE raid \in deleted
  <2>1. alive' = FALSE /\ UNCHANGED <<running, next, pending>>
    BY <1>1, <1>3
  <2>2. RaidsTyped'
    BY <1>2, <2>1 DEF RaidsIInv, RaidsTyped, AtAnEvent, Chains
  <2>3. late
    BY <1>1, <1>3, RaidsAssumption DEF RaidsIInv, InTime
  <2>4. QED
    BY <1>2, <2>1, <2>2, <2>3 DEF RaidsIInv, GoesOn, InTime
<1>4. CASE raid \notin deleted
  BY <1>1, <1>2, <1>4, ExecuteKeeps
<1>5. QED
  BY <1>3, <1>4

(* Raids::reload. *)
LEMMA ReloadKeeps == RaidsIInv /\ Raiding!Reload => RaidsIInv'
<1> SUFFICES ASSUME RaidsIInv, Raiding!Reload PROVE RaidsIInv'
  OBVIOUS
<1> DEFINE kept == Raiding!Stopped(pending, raidList \cup {NoRaid})
           all == Raiding!Scheduled(kept, NoRaid, Raiding!NoEvent)
           after == IF loaded' THEN all ELSE kept
<1>0. RaidsTyped /\ GoesOn /\ InTime
  BY DEF RaidsIInv
<1>1. /\ load < MaxReloads /\ load' = load + 1
      /\ deleted' = deleted \cup raidList /\ raidList' \subseteq Raiding!Loaded(load + 1)
      /\ loaded' \in BOOLEAN /\ (~loaded' => raidList' = {})
      /\ running' = NoRaid /\ pending' = after
      /\ late' = (late \/ \E p \in pending : p.due \/ p.raid \notin raidList \cup {NoRaid})
      /\ UNCHANGED <<next, alive>> /\ alive
  BY DEF Raiding!Reload, Raiding!Loadable, Raiding!Startup
<1>2. /\ kept \in SUBSET EventRecords /\ IsFiniteSet(kept) /\ Cardinality(kept) \in Nat
      /\ Cardinality(kept) <= Cardinality(pending)
  <2>1. kept \subseteq pending
    BY DEF Raiding!Stopped
  <2>2. QED
    BY <1>0, <2>1, FS_Subset, FS_CardinalityType DEF RaidsTyped
<1>3. ~late' => kept = {}
  BY <1>0, <1>1 DEF InTime, Timely, Raiding!Stopped
<1>4. Cardinality(kept) < 2 * (MaxReloads + 1) /\ Raiding!NoEvent \in Nat
  BY <1>0, <1>1, <1>2, Counts DEF Raiding!NoEvent
<1> HIDE DEF kept
<1>5. /\ all \subseteq EventRecords
      /\ IsFiniteSet(all) /\ Cardinality(all) <= Cardinality(kept) + 1
      /\ \E p \in all : p.raid = NoRaid
      /\ \A p \in all : \/ p.raid = NoRaid /\ p.event = Raiding!NoEvent /\ p.current
                        \/ \E q \in kept : p = Raiding!Forgotten(q, NoRaid)
      /\ \A p, q \in all :
           p.raid = NoRaid /\ q.raid = NoRaid /\ (\A r \in kept : r.raid # NoRaid) => p = q
  BY <1>2, <1>4, ScheduledEvents
<1> HIDE DEF all
<1>6. IsFiniteSet(pending') /\ Cardinality(pending') <= Chains'
  <2>1. Cardinality(all) \in Nat /\ Cardinality(after) <= Cardinality(kept) + 1
        /\ Cardinality(after) \in Nat /\ IsFiniteSet(after)
    BY <1>2, <1>5, FS_CardinalityType
  <2>2. Chains' = 2 * (load + 1) + 1
    BY <1>1 DEF Chains
  <2>3. QED
    BY <1>0, <1>1, <1>2, <1>5, <2>1, <2>2, Counts
<1>7. deleted' \subseteq Raiding!AllRaids /\ \A r \in deleted' : r[2] < load'
  BY <1>0, <1>1, Counts DEF RaidsTyped, Raiding!Loaded, Raiding!AllRaids
<1>8. RaidsTyped'
  <2>1. load' \in 0..MaxReloads /\ late' \in BOOLEAN /\ alive' \in BOOLEAN
    BY <1>0, <1>1, Counts DEF RaidsTyped
  <2>2. next' \in [Raiding!AllRaids -> Nat] /\ \A r \in Raiding!AllRaids : AtAnEvent(r)'
    BY <1>0, <1>1 DEF RaidsTyped, AtAnEvent
  <2>3. pending' \subseteq EventRecords /\ raidList' \subseteq Raiding!Loaded(load')
        /\ running' \in Raiding!AllRaids \cup {NoRaid}
    BY <1>1, <1>2, <1>5
  <2>4. QED
    BY <1>1, <1>6, <1>7, <2>1, <2>2, <2>3 DEF RaidsTyped
<1>9. GoesOn'
  BY <1>1, <1>5 DEF GoesOn
<1>10. InTime'
  BY <1>1, <1>3, <1>5 DEF InTime, Timely
<1>11. QED
  BY <1>8, <1>9, <1>10 DEF RaidsIInv

(* A timer of the scheduler expires. *)
LEMMA DueKeeps ==
  ASSUME RaidsIInv, NEW raid, Raiding!Due(raid)
  PROVE  RaidsIInv'
<1>0. RaidsTyped /\ GoesOn /\ InTime
  BY DEF RaidsIInv
<1>1. PICK p \in pending : pending' = (pending \ {p}) \cup {[p EXCEPT !.due = TRUE]}
  BY DEF Raiding!Due
<1>2. UNCHANGED <<load, loaded, raidList, deleted, running, next, alive, late>>
  BY DEF Raiding!Due
<1> DEFINE q == [p EXCEPT !.due = TRUE]
<1>3. q \in EventRecords /\ q.raid = p.raid /\ q.event = p.event /\ q.current = p.current
  <2>1. p \in EventRecords
    BY <1>0 DEF RaidsTyped
  <2>2. QED
    BY <2>1 DEF EventRecords
<1>4. IsFiniteSet(pending') /\ Cardinality(pending') <= Chains'
  <2> HIDE DEF q
  <2>1. /\ IsFiniteSet(pending \ {p}) /\ Cardinality(pending \ {p}) \in Nat
        /\ Cardinality(pending \ {p}) = Cardinality(pending) - 1
    BY <1>0, Without
  <2>2. /\ IsFiniteSet((pending \ {p}) \cup {q})
        /\ Cardinality((pending \ {p}) \cup {q})
           = IF q \in pending \ {p} THEN Cardinality(pending \ {p})
             ELSE Cardinality(pending \ {p}) + 1
    BY <2>1, FS_AddElement
  <2>3. pending' = (pending \ {p}) \cup {q} /\ Chains' = Chains
    BY <1>1, <1>2 DEF Chains, q
  <2>4. QED
    BY <1>0, <2>1, <2>2, <2>3, Counts
<1>5. pending' = (pending \ {p}) \cup {q}
  BY <1>1
<1> HIDE DEF q
<1>6. RaidsTyped'
  BY <1>0, <1>2, <1>3, <1>4, <1>5 DEF RaidsTyped, AtAnEvent
<1>7. GoesOn'
  BY <1>0, <1>2, <1>3, <1>5 DEF GoesOn
<1>8. InTime'
  BY <1>0, <1>2, <1>3, <1>5 DEF InTime, Timely
<1>9. QED
  BY <1>6, <1>7, <1>8 DEF RaidsIInv

LEMMA RaidsStep == RaidsIInv /\ [Raiding!Next]_(Raiding!vars) => RaidsIInv'
<1> SUFFICES ASSUME RaidsIInv, [Raiding!Next]_(Raiding!vars) PROVE RaidsIInv'
  OBVIOUS
<1>1. CASE Raiding!CheckRaids
  BY <1>1, CheckRaidsKeeps
<1>2. CASE Raiding!StartRaid
  BY <1>2, StartRaidKeeps
<1>3. CASE Raiding!Reload
  BY <1>3, ReloadKeeps
<1>4. CASE Raiding!Due(NoRaid)
  BY <1>4, DueKeeps
<1>5. CASE \E raid \in Raiding!AllRaids : Raiding!ExecuteRaidEvent(raid) \/ Raiding!Due(raid)
  BY <1>5, ExecuteRaidEventKeeps, DueKeeps
<1>6. CASE UNCHANGED Raiding!vars
  BY <1>6 DEF Raiding!vars, RaidsIInv, RaidsTyped, Chains, AtAnEvent, GoesOn, InTime, Timely
<1>7. QED
  BY <1>1, <1>2, <1>3, <1>4, <1>5, <1>6 DEF Raiding!Next

(* The invariant says what RaidsInv counts. *)
LEMMA SameTally == \A S : Raiding!Cardinality(S) = Cardinality(S)
<1>1. \A S : Raiding!IsFiniteSet(S) <=> IsFiniteSet(S)
  BY DEF Raiding!IsFiniteSet, IsFiniteSet
<1>2. QED
  BY <1>1 DEF Raiding!Cardinality, Cardinality

LEMMA RaidsKept == RaidsIInv => Raiding!RaidsInv
<1> SUFFICES ASSUME RaidsIInv PROVE Raiding!RaidsInv
  OBVIOUS
<1>0. RaidsTyped /\ GoesOn /\ InTime
  BY DEF RaidsIInv
<1>1. Raiding!TypeOK
  <2>1. \A p \in EventRecords :
          /\ DOMAIN p = {"id", "raid", "event", "due", "current"}
          /\ p.id \in Raiding!Ids /\ p.raid \in Raiding!AllRaids \cup {NoRaid}
          /\ p.due \in BOOLEAN /\ p.current \in BOOLEAN
    BY DEF EventRecords
  <2>2. raidList \subseteq Raiding!AllRaids
    BY <1>0, Counts DEF RaidsTyped, Raiding!Loaded, Raiding!AllRaids
  <2>3. QED
    BY <1>0, <2>1, <2>2 DEF RaidsTyped, Raiding!TypeOK
<1>2. alive => /\ loaded => Raiding!Pending(NoRaid) # {}
               /\ running # NoRaid => Raiding!Pending(running) # {} \/ ~Raiding!HasEvent(running, 0)
  BY <1>0 DEF GoesOn, Raiding!Pending
<1>3. ASSUME ~late, loaded PROVE Cardinality(Raiding!Pending(NoRaid)) = 1
  <2>1. PICK p \in pending : p.raid = NoRaid
    BY <1>0, <1>3 DEF GoesOn, InTime
  <2>2. Raiding!Pending(NoRaid) = {p}
    BY <1>0, <1>3, <2>1 DEF InTime, Timely, Raiding!Pending
  <2>3. QED
    BY <2>2, FS_Singleton
<1>4. ASSUME ~late PROVE Cardinality(Raiding!Executing) <= 1
  <2>1. CASE Raiding!Executing = {}
    BY <2>1, FS_EmptySet
  <2>2. CASE Raiding!Executing # {}
    <3>1. PICK p \in Raiding!Executing : TRUE
      BY <2>2
    <3>2. Raiding!Executing = {p}
      BY <1>0, <1>4, <3>1 DEF InTime, Timely, Raiding!Executing
    <3>3. Cardinality({p}) = 1
      BY FS_Singleton
    <3>4. QED
      BY <3>2, <3>3
  <2>3. QED
    BY <2>1, <2>2
<1>5. ~late => alive /\ \A p \in Raiding!Executing :
                 p.raid = running /\ p.raid \notin deleted /\ p.event = next[p.raid]
  BY <1>0 DEF InTime, Timely, Raiding!Executing
<1>6. ASSUME ~late, ~loaded PROVE Cardinality(Raiding!Pending(NoRaid)) = 0
  <2>1. Raiding!Pending(NoRaid) = {}
    BY <1>0, <1>6 DEF InTime, Raiding!Pending
  <2>2. QED
    BY <2>1, FS_EmptySet
<1>7. ~loaded => running = NoRaid
  BY <1>0 DEF RaidsTyped
<1>8. QED
  BY <1>1, <1>2, <1>3, <1>4, <1>5, <1>6, <1>7, SameTally DEF Raiding!RaidsInv

-----------------------------------------------------------------------------
(* A step of the town is a step of each component or leaves it alone. *)
LEMMA TownApart ==
  ASSUME [Next]_vars
  PROVE  /\ [Sleep!Next]_(Sleep!vars)
         /\ [Shops!Next]_(Shops!vars)
         /\ [Chat!Next]_(Chat!vars)
         /\ [Steps!Next]_(Steps!vars)
         /\ [Time!Next]_(Time!vars)
<1>1. Sleep!Next \/ UNCHANGED bedVars
  BY DEF Next, vars
<1>2. Shops!Next \/ UNCHANGED shopVars
  BY DEF Next, vars
<1>3. Chat!Next \/ UNCHANGED chatVars
  BY DEF Next, vars
<1>4. Steps!Next \/ UNCHANGED flightVars
  BY DEF Next, vars
<1>5. Time!Next \/ UNCHANGED decayVars
  BY DEF Next, vars
<1>6. QED
  BY <1>1, <1>2, <1>3, <1>4, <1>5 DEF bedVars, Sleep!vars, shopVars, Shops!vars, chatVars,
     Chat!vars, flightVars, Steps!vars, decayVars, Time!vars

(* However players lie down, log in, are woken and are kicked, and whatever  *)
(* a save or a restart comes between, both halves of a bed and the table of  *)
(* the game agree on who sleeps there (BedItem, Game::bedSleepersMap).       *)
THEOREM BedsAgree == Spec => []BedsInv
<1>1. Init => BedsIInv
  BY BedsInitially DEF Init
<1>2. BedsIInv /\ [Next]_vars => BedsIInv'
  BY TownApart, BedsStep
<1>3. BedsIInv => BedsInv
  BY DEF BedsIInv, BedsInv, Sleep!BedsInv, SleepAgrees, Paired
<1>4. QED
  BY <1>1, <1>2, <1>3, PTL DEF Spec

(* The two ends of a shop window agree however it is closed, and an NPC       *)
(* knows who has it in sight, but for who moved without a client or was near  *)
(* when it moved, and has not moved since (Npc, Player::closeShopWindow);     *)
(* whoever is in a channel or invited is online, a private channel has one    *)
(* owner, who has no other, and a guild knows its members who are online      *)
(* (Chat, PrivateChatChannel, Guild).                                         *)
THEOREM TalkIsConsistent == Spec => []TalkInv
<1>1. Init => NpcsIInv /\ ChannelsIInv
  BY NpcsInitially, ChannelsInitially DEF Init
<1>2. NpcsIInv /\ [Next]_vars => NpcsIInv'
  BY TownApart, NpcsStep
<1>3. ChannelsIInv /\ [Next]_vars => ChannelsIInv'
  BY TownApart, ChannelsStep
<1>4. NpcsIInv /\ ChannelsIInv => TalkInv
  BY NpcsKept, ChannelsKept DEF TalkInv
<1>5. QED
  BY <1>1, <1>2, <1>3, <1>4, PTL DEF Spec

(* Wherever the target is, at any distance, and whichever fields are open, a  *)
(* step of getDistanceStep does not come nearer while there is another way,    *)
(* and takes a way that leads off if there is one (Monster, Duelist).          *)
THEOREM FlightIsSafe == Spec => []FlightInv
<1>1. Init => FlightIInv
  BY FlightInitially DEF Init
<1>2. FlightIInv /\ [Next]_vars => FlightIInv'
  BY TownApart, FlightStep
<1>3. FlightIInv => FlightInv
  BY FlightKept DEF FlightInv
<1>4. QED
  BY <1>1, <1>2, <1>3, PTL DEF Spec

(* Whatever is transformed, moved, removed and put on the list again between  *)
(* two visits, the lists of decaying items hold a reference for each entry,    *)
(* what counts as decaying is in one of them, and an item that was there once  *)
(* decays when its time is up, for any kinds and times (Game::startDecay,      *)
(* Game::checkDecay, Game::internalDecayItem, Game::cleanup).                  *)
THEOREM TimesAreKept == Spec => []DecayInv
<1>1. Init => DecayIInv
  BY DecayInitially DEF Init
<1>2. DecayIInv /\ [Next]_vars => DecayIInv'
  BY TownApart, DecayStep, DecayRests
<1>3. DecayIInv => DecayInv
  BY DecayKept DEF DecayInv
<1>4. QED
  BY <1>1, <1>2, <1>3, PTL DEF Spec

(* A step of the world is a step of each of its two chains or leaves it alone. *)
LEMMA WorldApart ==
  ASSUME [WorldNext]_worldVars
  PROVE  [Respawn!Next]_(Respawn!vars) /\ [Raiding!Next]_(Raiding!vars)
<1>1. Respawn!Next \/ UNCHANGED spawnVars
  BY DEF WorldNext, worldVars
<1>2. Raiding!Next \/ UNCHANGED raidVars
  BY DEF WorldNext, worldVars
<1>3. QED
  BY <1>1, <1>2 DEF spawnVars, Respawn!vars, raidVars, Raiding!vars

(* The entries, references and checks of a spawn agree, so that no block is   *)
(* forgotten (Spawn::checkSpawn, Spawn::startSpawnCheck); the raid that runs  *)
(* has its next event pending and there is a check while raids are loaded,    *)
(* and without a late reload there is one of each and no raid that was        *)
(* deleted (Raids, Raid).                                                     *)
THEOREM WorldIsKept == WorldSpec => []WorldInv
<1>1. WorldInit => SpawnsIInv /\ RaidsIInv
  BY SpawnsInitially, RaidsInitially DEF WorldInit
<1>2. SpawnsIInv /\ RaidsIInv /\ [WorldNext]_worldVars => (SpawnsIInv /\ RaidsIInv)'
  BY WorldApart, SpawnsStep, RaidsStep
<1>3. SpawnsIInv /\ RaidsIInv => WorldInv
  BY SpawnsKept, RaidsKept DEF WorldInv
<1>4. QED
  BY <1>1, <1>2, <1>3, PTL DEF WorldSpec
=============================================================================
