--------------------------- MODULE RecordsProofs ----------------------------
(***************************************************************************)
(* What is proved of what is remembered of players.                        *)
(*                                                                         *)
(* Of Accounts: its types, that every connection is the account of the     *)
(* client that made it, and that every player is where the client was sent *)
(* last; for any number of clients the line has room for, when anybody may *)
(* sign in, clients connect in the order they were sent, and no character  *)
(* is reset under its player.                                              *)
(*                                                                         *)
(* Of Keepsakes: its types, and that every detail follows its stack        *)
(* through moves, the repair square, sessions, restarts and the writes in  *)
(* between, until a crash falls between the two records of one tick; for   *)
(* any rucksack and any set of stacks.                                     *)
(***************************************************************************)
EXTENDS Accounts, Keepsakes, FiniteSetTheorems, WellFoundedInduction,
        SequenceTheorems, TLAPS

-----------------------------------------------------------------------------
(* What the theorems on who arrives assume: the rest is documented as      *)
(* mixing players up ("This is ordering, not identity").                   *)
InOrder ==
  /\ ~Fixed /\ Orderly /\ ~ResetsWhilePlaying
  /\ IsFiniteSet(Clients) /\ Cardinality(Clients) <= MAX_RESERVATIONS

-----------------------------------------------------------------------------
Stages == {"out", "launched", "signed", "waiting", "creating", "playing"}

AccountsTyped ==
  /\ accounts \subseteq Clients
  /\ token \in [Clients -> Clients \cup {Absent}]
  /\ peer \in Clients \cup {Absent} /\ most_recent \in Clients \cup {Absent}
  /\ characters \in [Clients -> Profiles \cup {Absent}]
  /\ reservations \in Seq(Clients)
  /\ destinations \in [Clients -> Rifts \cup {Absent}]
  /\ connection \in [Clients -> Sessions \cup {Absent}]
  /\ stage_of \in [Clients -> Stages]
  /\ line \in Seq(Clients)
  /\ chosen \in [Clients -> Profiles]
  /\ heading \in [Clients -> Rifts \cup {HomeWorld}]
  /\ \A c \in Clients : stage_of[c] \in {"creating", "playing"} => Connected(c)

(* The reservations are the clients on their way, each once.               *)
LineIsTheWaiting ==
  /\ reservations = line
  /\ \A i, j \in DOMAIN line : line[i] = line[j] => i = j
  /\ \A c \in Clients : stage_of[c] = "waiting" <=> \E i \in DOMAIN line : line[i] = c

(* What is on record of a character once its session has been published,   *)
(* and a profile that has been told nothing but what was chosen.           *)
Tells(profile, held) ==
  [name |-> Told(profile.name, held.name),
   biome |-> Told(profile.biome, held.biome),
   look |-> Told(profile.look, held.look)]
Agrees(profile, choice) == Tells(profile, choice) = choice

(* The character on record and the session are what the client made, and a *)
(* client that has signed in is known by its token.                        *)
AsChosen(c) ==
  /\ stage_of[c] = "signed" => token[c] = c
  /\ chosen[c] = IF characters[c] = Absent THEN NewCharacter(c, c) ELSE characters[c]
  /\ Connected(c) => connection[c].account = c /\ Agrees(connection[c].profile, chosen[c])
  /\ stage_of[c] \in {"out", "launched", "signed"} => ~Connected(c)
  /\ stage_of[c] = "playing" => connection[c].profile = chosen[c]

(* A destination is kept only for a client on its way to it.               *)
BoundForHeading(c) ==
  /\ destinations[c] = IF stage_of[c] # "waiting" \/ heading[c] = HomeWorld THEN Absent
                       ELSE heading[c]
  /\ stage_of[c] = "waiting" /\ Connected(c) /\ heading[c] # HomeWorld => connection[c].departed
  /\ stage_of[c] = "playing" => connection[c].world = heading[c]

AInv ==
  /\ AccountsTyped /\ LineIsTheWaiting
  /\ \A c \in Clients : AsChosen(c) /\ BoundForHeading(c)

-----------------------------------------------------------------------------
(* Types. *)

LEMMA ProfilesAreTyped ==
  /\ NoProfile \in Profiles
  /\ \A a \in Clients, name \in CharacterNames \cup Clients : NewCharacter(a, name) \in Profiles
<1>1. NoProfile \in Profiles
  BY DEF NoProfile, Profiles
<1>2. ASSUME NEW a \in Clients, NEW name \in CharacterNames \cup Clients
      PROVE  NewCharacter(a, name) \in Profiles
  BY DEF NewCharacter, Profiles
<1> QED BY <1>1, <1>2

LEMMA ReservedIsTyped ==
  ASSUME NEW queue \in Seq(Clients), NEW a \in Clients
  PROVE  Reserved(queue, a) \in Seq(Clients)
<1>1. Append(queue, a) \in Seq(Clients) /\ Append(queue, a) # <<>>
  BY AppendProperties
<1> QED BY <1>1 DEF Reserved

LEMMA CallerIsTyped ==
  ASSUME AccountsTyped, NEW c \in Clients
  PROVE  Caller(c) \in Clients \cup {Absent}
BY DEF AccountsTyped, Caller

(* What publishing a session's profile leaves on record.                   *)
LEMMA PublishIsTyped ==
  ASSUME AccountsTyped, NEW account \in Clients \cup {Absent}, NEW profile \in Profiles
  PROVE  publish(account, profile) \in [Clients -> Profiles \cup {Absent}]
<1>1. CASE account = Absent
  BY <1>1 DEF publish, AccountsTyped
<1>2. CASE account \in Clients
  <2> DEFINE held == IF characters[account] = Absent THEN NewCharacter(account, account)
                     ELSE characters[account]
             told == [name |-> Told(profile.name, held.name),
                      biome |-> Told(profile.biome, held.biome),
                      look |-> Told(profile.look, held.look)]
  <2>1. held \in Profiles
    BY <1>2, ProfilesAreTyped DEF AccountsTyped
  <2>2. told \in Profiles
    BY <2>1 DEF Told, Profiles
  <2>3. account # Absent
    BY <1>2, AccountsAssumption
  <2>4. publish(account, profile) = [characters EXCEPT ![account] = told]
    BY <2>3 DEF publish
  <2> HIDE DEF told
  <2> QED BY <2>2, <2>4 DEF AccountsTyped
<1> QED BY <1>1, <1>2

(* Handling a packet keeps the types of what it changes.                   *)
LEMMA HandledIsTyped ==
  ASSUME AccountsTyped, NEW c \in Clients, NEW session \in Sessions, Handled(c, session)
  PROVE  /\ characters' \in [Clients -> Profiles \cup {Absent}]
         /\ connection' \in [Clients -> Sessions \cup {Absent}]
         /\ Connected(c)'
         /\ \A d \in Clients \ {c} : Connected(d)' <=> Connected(d)
<1>1. session.account \in Clients \cup {Absent} /\ session.profile \in Profiles
  BY DEF Sessions
<1>2. session # Absent
  BY AccountsAssumption
<1> QED BY <1>1, <1>2, PublishIsTyped DEF Handled, AccountsTyped, Connected

LEMMA SentIsTyped ==
  ASSUME AccountsTyped, NEW c \in Clients, NEW w \in Rifts \cup {HomeWorld}, Sent(c, w)
  PROVE  /\ stage_of' \in [Clients -> Stages]
         /\ line' \in Seq(Clients)
         /\ heading' \in [Clients -> Rifts \cup {HomeWorld}]
         /\ \A d \in Clients : stage_of'[d] \in {"creating", "playing"} =>
              d # c /\ stage_of'[d] = stage_of[d]
BY DEF Sent, AccountsTyped, Stages

LEMMA ExpectedBackIsTyped ==
  ASSUME AccountsTyped, NEW account \in Clients \cup {Absent}
  PROVE  ExpectedBack(account) \in Seq(Clients)
BY ReservedIsTyped DEF ExpectedBack, AccountsTyped

LEMMA SessionIsTyped ==
  ASSUME AccountsTyped, NEW c \in Clients, Connected(c)
  PROVE  /\ connection[c] \in Sessions
         /\ connection[c].account \in Clients \cup {Absent}
         /\ connection[c].profile \in Profiles
BY DEF AccountsTyped, Connected, Sessions

LEMMA SignInIsTyped ==
  ASSUME AccountsTyped, NEW c \in Clients,
         LauncherLogin(c) \/ sign_in(c, c) \/ sign_in(c, "")
  PROVE  AccountsTyped'
<1>1. \A d \in Clients : Connected(d)' <=> Connected(d)
  BY DEF LauncherLogin, sign_in, Connected, server_vars
<1>2. stage_of' \in [Clients -> Stages]
  BY DEF LauncherLogin, sign_in, AccountsTyped, Stages
<1>3. \A d \in Clients : stage_of'[d] \in {"creating", "playing"} => stage_of'[d] = stage_of[d]
  BY DEF LauncherLogin, sign_in, AccountsTyped
<1>4. token' \in [Clients -> Clients \cup {Absent}]
  <2>1. token' = token \/ token' = [token EXCEPT ![c] = c]
    BY DEF LauncherLogin, sign_in, web_vars
  <2> QED BY <2>1 DEF AccountsTyped
<1>6. accounts' \subseteq Clients
  BY DEF LauncherLogin, sign_in, authenticate, AccountsTyped, web_vars
<1>5. peer' \in Clients \cup {Absent} /\ most_recent' \in Clients \cup {Absent}
  BY DEF LauncherLogin, sign_in, authenticate, AccountsTyped, web_vars
<1> QED BY <1>1, <1>2, <1>3, <1>4, <1>5, <1>6 DEF LauncherLogin, sign_in, AccountsTyped, server_vars

LEMMA CreateIsTyped ==
  ASSUME AccountsTyped, NEW c \in Clients,
         ActiveCharacter(c) \/ \E name \in CharacterNames : CreateByRequest(c, name)
  PROVE  AccountsTyped'
<1>1. \A d \in Clients : Connected(d)' <=> Connected(d)
  BY DEF ActiveCharacter, CreateByRequest, Connected
<1>2. CASE ActiveCharacter(c)
  <2>1. characters' \in [Clients -> Profiles \cup {Absent}]
    BY <1>2, ProfilesAreTyped, CallerIsTyped DEF ActiveCharacter, AccountsTyped
  <2> QED BY <1>1, <1>2, <2>1 DEF ActiveCharacter, AccountsTyped, web_vars, client_vars
<1>3. ASSUME NEW name \in CharacterNames, CreateByRequest(c, name)
      PROVE  AccountsTyped'
  <2>1. characters' \in [Clients -> Profiles \cup {Absent}]
    BY <1>3, ProfilesAreTyped, CallerIsTyped DEF CreateByRequest, AccountsTyped
  <2>2. [chosen[c] EXCEPT !.name = name] \in Profiles
    BY DEF AccountsTyped, Profiles
  <2>3. chosen' \in [Clients -> Profiles]
    BY <1>3, <2>2 DEF CreateByRequest, AccountsTyped
  <2> QED BY <1>1, <1>3, <2>1, <2>3 DEF CreateByRequest, AccountsTyped, web_vars
<1> QED BY <1>2, <1>3

LEMMA RetrieveIsTyped ==
  ASSUME AccountsTyped, NEW c \in Clients, Retrieve(c)
  PROVE  AccountsTyped'
<1>1. Sent(c, HomeWorld)
  BY DEF Retrieve
<1>2. reservations' \in Seq(Clients)
  BY ReservedIsTyped, CallerIsTyped DEF Retrieve, AccountsTyped
<1> QED BY <1>1, <1>2, SentIsTyped DEF Retrieve, AccountsTyped, web_vars, Connected

LEMMA ArriveIsTyped ==
  ASSUME AccountsTyped, NEW c \in Clients, Arrive(c)
  PROVE  AccountsTyped'
<1> DEFINE claimed == IF reservations = <<>> THEN Absent ELSE Head(reservations)
           bound   == IF claimed = Absent THEN Absent ELSE destinations[claimed]
           profile == stored_profile(claimed)
           session == [account |-> claimed, profile |-> profile, departed |-> FALSE,
                       world |-> IF bound = Absent THEN HomeWorld ELSE bound]
<1>1. claimed \in Clients \cup {Absent}
  BY DEF AccountsTyped
<1>2. profile \in Profiles
  BY <1>1, ProfilesAreTyped DEF stored_profile, AccountsTyped
<1>3. bound \in Rifts \cup {Absent}
  BY <1>1 DEF AccountsTyped
<1>4. session \in Sessions
  BY <1>1, <1>2, <1>3 DEF Sessions
<1>5. session # Absent
  BY <1>4, AccountsAssumption
<1>6. connection' = [connection EXCEPT ![c] = session]
  BY DEF Arrive
<1> HIDE DEF session
<1>7. connection' \in [Clients -> Sessions \cup {Absent}]
  BY <1>4, <1>6 DEF AccountsTyped
<1>8. destinations' \in [Clients -> Rifts \cup {Absent}]
  BY <1>1 DEF Arrive, Unbound, AccountsTyped
<1>9. reservations' \in Seq(Clients)
  BY DEF Arrive, AccountsTyped
<1>10. line' \in Seq(Clients)
  BY DEF Arrive, RemoveAt, AccountsTyped
<1>11. stage_of' \in [Clients -> Stages]
  BY DEF Arrive, AccountsTyped, Stages
<1>12. ASSUME NEW d \in Clients, stage_of'[d] \in {"creating", "playing"}
       PROVE  Connected(d)'
  BY <1>5, <1>6, <1>12 DEF Arrive, AccountsTyped, Connected
<1> QED BY <1>7, <1>8, <1>9, <1>10, <1>11, <1>12 DEF Arrive, AccountsTyped, web_vars

LEMMA CustomiseIsTyped ==
  ASSUME AccountsTyped, NEW c \in Clients,
         \/ \E name \in CharacterNames : SaveCharacterName(c, name)
         \/ \E look \in Looks : SetCharacterCustomisation(c, look)
  PROVE  AccountsTyped'
<1>1. stage_of[c] = "creating" /\ Connected(c)
  BY DEF SaveCharacterName, SetCharacterCustomisation, AccountsTyped
<1>2. ASSUME NEW name \in CharacterNames, SaveCharacterName(c, name)
      PROVE  AccountsTyped'
  <2> DEFINE session == [connection[c] EXCEPT !.profile.name = name]
  <2>1. session \in Sessions
    BY <1>1, SessionIsTyped DEF Sessions, Profiles
  <2>2. Handled(c, session)
    BY <1>2 DEF SaveCharacterName
  <2> HIDE DEF session
  <2>3. [chosen[c] EXCEPT !.name = name] \in Profiles
    BY DEF AccountsTyped, Profiles
  <2>4. chosen' \in [Clients -> Profiles]
    BY <1>2, <2>3 DEF SaveCharacterName, AccountsTyped
  <2> QED BY <1>2, <2>1, <2>2, <2>4, HandledIsTyped DEF SaveCharacterName, AccountsTyped, web_vars
<1>3. ASSUME NEW look \in Looks, SetCharacterCustomisation(c, look)
      PROVE  AccountsTyped'
  <2> DEFINE session == [connection[c] EXCEPT !.profile.look = look]
  <2>1. session \in Sessions
    BY <1>1, SessionIsTyped DEF Sessions, Profiles
  <2>2. Handled(c, session)
    BY <1>3 DEF SetCharacterCustomisation
  <2> HIDE DEF session
  <2>3. [chosen[c] EXCEPT !.look = look] \in Profiles
    BY DEF AccountsTyped, Profiles
  <2>4. chosen' \in [Clients -> Profiles]
    BY <1>3, <2>3 DEF SetCharacterCustomisation, AccountsTyped
  <2> QED BY <1>3, <2>1, <2>2, <2>4, HandledIsTyped
          DEF SetCharacterCustomisation, AccountsTyped, web_vars
<1> QED BY <1>2, <1>3

LEMMA CreateHomeworldIsTyped ==
  ASSUME AccountsTyped, NEW c \in Clients, NEW biome \in Biomes \cup {Absent},
         CreateHomeworld(c, biome)
  PROVE  AccountsTyped'
<1>1. Connected(c) /\ Sent(c, HomeWorld)
  BY DEF CreateHomeworld, AccountsTyped
<1> DEFINE session == [connection[c] EXCEPT !.profile.biome = Told(biome, @)]
<1>2. session \in Sessions
  BY <1>1, SessionIsTyped DEF Sessions, Profiles, Told
<1>3. Handled(c, session)
  BY DEF CreateHomeworld
<1> HIDE DEF session
<1>4. [chosen[c] EXCEPT !.biome = Told(biome, @)] \in Profiles
  BY DEF AccountsTyped, Profiles, Told
<1>6. chosen' \in [Clients -> Profiles]
  BY <1>4 DEF CreateHomeworld, AccountsTyped
<1>5. reservations' \in Seq(Clients)
  BY <1>1, SessionIsTyped, ExpectedBackIsTyped DEF CreateHomeworld
<1> QED BY <1>1, <1>2, <1>3, <1>5, <1>6, HandledIsTyped, SentIsTyped
        DEF CreateHomeworld, AccountsTyped, web_vars

LEMMA DepartIsTyped ==
  ASSUME AccountsTyped, NEW c \in Clients, NEW w \in Rifts \cup {HomeWorld}, Connected(c),
         Depart(c, w)
  PROVE  AccountsTyped'
<1> DEFINE session == [connection[c] EXCEPT !.departed = TRUE]
<1>1. session \in Sessions
  BY SessionIsTyped DEF Sessions
<1>2. Handled(c, session)
  BY DEF Depart
<1> HIDE DEF session
<1>3. reservations' \in Seq(Clients)
  BY SessionIsTyped, ExpectedBackIsTyped DEF Depart
<1>4. destinations' \in [Clients -> Rifts \cup {Absent}]
  BY SessionIsTyped DEF Depart, AccountsTyped
<1>5. /\ stage_of' \in [Clients -> Stages] /\ line' \in Seq(Clients)
      /\ heading' \in [Clients -> Rifts \cup {HomeWorld}]
      /\ \A d \in Clients : stage_of'[d] \in {"creating", "playing"} => stage_of'[d] = stage_of[d]
  BY SentIsTyped DEF Depart, AccountsTyped
<1>6. /\ characters' \in [Clients -> Profiles \cup {Absent}]
      /\ connection' \in [Clients -> Sessions \cup {Absent}]
      /\ \A d \in Clients : Connected(d) => Connected(d)'
  BY <1>1, <1>2, HandledIsTyped
<1> QED BY <1>3, <1>4, <1>5, <1>6 DEF Depart, AccountsTyped, web_vars

LEMMA RestIsTyped ==
  ASSUME AccountsTyped, NEW c \in Clients,
         SendPacket(c) \/ LoseConnection(c) \/ ResetCharacter(c)
  PROVE  AccountsTyped'
<1>1. CASE SendPacket(c)
  BY <1>1, SessionIsTyped, HandledIsTyped DEF SendPacket, AccountsTyped, web_vars, client_vars
<1>2. CASE LoseConnection(c)
  BY <1>2 DEF LoseConnection, AccountsTyped, Connected, Stages, web_vars
<1>3. CASE ResetCharacter(c)
  <2>1. NewCharacter(c, c) \in Profiles
    BY ProfilesAreTyped
  <2> QED BY <1>3, <2>1 DEF ResetCharacter, AccountsTyped, Connected, web_vars
<1> QED BY <1>1, <1>2, <1>3

LEMMA StepIsTyped == AccountsTyped /\ [AccountsNext]_account_vars => AccountsTyped'
<1> SUFFICES ASSUME AccountsTyped, [AccountsNext]_account_vars PROVE AccountsTyped'
  OBVIOUS
<1>1. CASE UNCHANGED account_vars
  BY <1>1 DEF AccountsTyped, Connected, account_vars, web_vars, server_vars, client_vars
<1>2. ASSUME NEW c \in Clients, NEW w \in Rifts, StepThroughPortal(c, w)
      PROVE  AccountsTyped'
  BY <1>2, DepartIsTyped DEF StepThroughPortal
<1>3. ASSUME NEW c \in Clients, JoinHomeWorld(c)
      PROVE  AccountsTyped'
  BY <1>3, DepartIsTyped DEF JoinHomeWorld, AccountsTyped
<1> QED BY <1>1, <1>2, <1>3, SignInIsTyped, CreateIsTyped, RetrieveIsTyped, ArriveIsTyped,
           CustomiseIsTyped, CreateHomeworldIsTyped, RestIsTyped DEF AccountsNext

LEMMA InitIsTyped == AccountsInit => AccountsTyped
BY ProfilesAreTyped DEF AccountsInit, AccountsTyped, Stages

(* Everything has its type: in particular a client whose creator or world  *)
(* is running has a session on the game server.                            *)
THEOREM AccountsAreTyped == AccountsSpec => []AccountsTyped
BY InitIsTyped, StepIsTyped, PTL DEF AccountsSpec

-----------------------------------------------------------------------------
(* The line. *)

(* A client that is not on its way finds room in the line.                 *)
LEMMA LineHasRoom ==
  ASSUME InOrder, AInv, NEW c \in Clients, stage_of[c] # "waiting"
  PROVE  Reserved(reservations, c) = Append(line, c)
<1> DEFINE longer == Append(line, c)
<1>1. longer \in Seq(Clients) /\ Len(longer) \in Nat /\ Len(longer) = Len(line) + 1
      /\ \A i \in 1 .. Len(line) : longer[i] = line[i]
      /\ longer[Len(longer)] = c /\ DOMAIN longer = 1 .. Len(longer)
  BY AppendProperties DEF AInv, AccountsTyped
<1>2. \A i \in DOMAIN line : line[i] # c
  BY DEF AInv, LineIsTheWaiting
<1>3. \A i, j \in 1 .. Len(longer) : longer[i] = longer[j] => i = j
  <2>1. DOMAIN line = 1 .. Len(line) /\ Len(line) \in Nat
    BY DEF AInv, AccountsTyped
  <2>2. \A i, j \in 1 .. Len(line) : line[i] = line[j] => i = j
    BY <2>1 DEF AInv, LineIsTheWaiting
  <2> QED BY <1>1, <1>2, <2>1, <2>2
<1>10. longer \in [1 .. Len(longer) -> Clients]
  BY <1>1, LenProperties
<1>4. longer \in Injection(1 .. Len(longer), Clients)
  <2> HIDE DEF longer
  <2> QED BY <1>1, <1>3, <1>10 DEF Injection, IsInjective
<1>5. Cardinality(1 .. Len(longer)) <= Cardinality(Clients)
  <2> HIDE DEF longer
  <2>1. IsFiniteSet(Clients)
    BY DEF InOrder
  <2> DEFINE places == 1 .. Len(longer)
  <2>2. longer \in Injection(places, Clients)
    BY <1>4
  <2> HIDE DEF places
  <2>3. Cardinality(places) <= Cardinality(Clients)
    BY <2>1, <2>2, FS_Injection
  <2> QED BY <2>3 DEF places
<1>6. Cardinality(1 .. Len(longer)) = Len(longer)
  <2> HIDE DEF longer
  <2>1. 1 \in Int /\ Len(longer) \in Int /\ ~(1 > Len(longer))
    BY <1>1, LenProperties DEF AInv, AccountsTyped
  <2>2. Cardinality(1 .. Len(longer)) = IF 1 > Len(longer) THEN 0 ELSE Len(longer) - 1 + 1
    BY <2>1, FS_Interval, Zenon
  <2> QED BY <2>1, <2>2
<1>7. Cardinality(Clients) \in Nat
  BY FS_CardinalityType DEF InOrder
<1>8. Len(longer) <= MAX_RESERVATIONS
  BY <1>1, <1>5, <1>6, <1>7, AccountsAssumption DEF InOrder
<1>9. reservations = line
  BY DEF AInv, LineIsTheWaiting
<1> QED BY <1>1, <1>8, <1>9, AccountsAssumption DEF Reserved

(* Joining the line at its end, with a reservation of one's own.           *)
LEMMA LineGrows ==
  ASSUME InOrder, AInv, NEW c \in Clients, NEW w, stage_of[c] # "waiting",
         Sent(c, w), reservations' = Reserved(reservations, c)
  PROVE  LineIsTheWaiting'
<1>1. line' = Append(line, c) /\ reservations' = line'
  BY LineHasRoom DEF Sent
<1>2. \A i \in DOMAIN line : line[i] # c
  BY DEF AInv, LineIsTheWaiting
<1>3. /\ DOMAIN line = 1 .. Len(line) /\ Len(line) \in Nat
      /\ DOMAIN line' = 1 .. Len(line) + 1
      /\ \A i \in DOMAIN line : line'[i] = line[i]
      /\ line'[Len(line) + 1] = c
  BY <1>1, AppendProperties DEF AInv, AccountsTyped
<1>4. \A i, j \in DOMAIN line' : line'[i] = line'[j] => i = j
  BY <1>2, <1>3 DEF AInv, LineIsTheWaiting
<1>5. ASSUME NEW d \in Clients
      PROVE  stage_of'[d] = "waiting" <=> \E i \in DOMAIN line' : line'[i] = d
  <2>1. CASE d = c
    <3>1. stage_of'[d] = "waiting"
      BY <2>1 DEF Sent, AInv, AccountsTyped
    <3> QED BY <1>3, <2>1, <3>1
  <2>2. CASE d # c
    <3>1. stage_of'[d] = stage_of[d]
      BY <2>2 DEF Sent, AInv, AccountsTyped
    <3>2. (\E i \in DOMAIN line' : line'[i] = d) <=> \E i \in DOMAIN line : line[i] = d
      BY <1>3, <2>2
    <3> QED BY <3>1, <3>2 DEF AInv, LineIsTheWaiting
  <2> QED BY <2>1, <2>2
<1> QED BY <1>1, <1>4, <1>5 DEF LineIsTheWaiting

(* Whoever arrives was the first, and was expected.                        *)
LEMMA FirstArrives ==
  ASSUME InOrder, AInv, NEW c \in Clients, Arrive(c)
  PROVE  /\ reservations # <<>> /\ Head(reservations) = c
         /\ line' = Tail(line)
<1>1. PICK i \in DOMAIN line : line[i] = c /\ i = 1 /\ line' = RemoveAt(line, i)
  BY DEF Arrive, InOrder
<1>2. line \in Seq(Clients) /\ line # <<>> /\ Head(line) = c
  BY <1>1 DEF AInv, AccountsTyped
<1>3. RemoveAt(line, 1) = Tail(line)
  <2>1. SubSeq(line, 1, 0) = <<>>
    BY <1>2, SubSeqEmpty
  <2>2. Tail(line) = SubSeq(line, 2, Len(line))
    BY <1>2, TailIsSubSeq
  <2>3. Tail(line) \in Seq(Clients)
    BY <1>2
  <2> QED BY <2>1, <2>2, <2>3, ConcatEmptySeq DEF RemoveAt
<1> QED BY <1>1, <1>2, <1>3 DEF AInv, LineIsTheWaiting

LEMMA LineMovesUp ==
  ASSUME InOrder, AInv, AccountsTyped', NEW c \in Clients, Arrive(c)
  PROVE  LineIsTheWaiting'
<1>1. /\ line \in Seq(Clients) /\ line # <<>> /\ Head(line) = c /\ line[1] = c
      /\ line' = Tail(line) /\ reservations' = Tail(line)
  <2>1. line \in Seq(Clients) /\ reservations = line
    BY DEF AInv, AccountsTyped, LineIsTheWaiting
  <2>2. reservations' = Tail(reservations)
    BY FirstArrives DEF Arrive
  <2> QED BY FirstArrives, <2>1, <2>2
<1>2. /\ DOMAIN line = 1 .. Len(line) /\ Len(line) \in Nat
      /\ DOMAIN line' = 1 .. Len(line) - 1
      /\ \A i \in DOMAIN line' : i + 1 \in DOMAIN line /\ line'[i] = line[i + 1]
  BY <1>1, HeadTailProperties
<1>3. \A i, j \in DOMAIN line' : line'[i] = line'[j] => i = j
  BY <1>2 DEF AInv, LineIsTheWaiting
<1>4. \A d \in Clients \ {c} : stage_of'[d] = stage_of[d]
  BY DEF Arrive, AInv, AccountsTyped
<1>5. stage_of'[c] # "waiting"
  BY DEF Arrive, AInv, AccountsTyped
<1>6. \A i \in DOMAIN line' : line'[i] # c
  BY <1>1, <1>2 DEF AInv, LineIsTheWaiting
<1>7. ASSUME NEW d \in Clients \ {c}
      PROVE  (\E i \in DOMAIN line' : line'[i] = d) <=> (\E i \in DOMAIN line : line[i] = d)
  <2>1. ASSUME NEW i \in DOMAIN line, line[i] = d
        PROVE  \E j \in DOMAIN line' : line'[j] = d
    <3>1. i # 1 /\ i - 1 \in DOMAIN line' /\ (i - 1) + 1 = i
      BY <1>1, <1>2, <2>1
    <3> QED BY <1>2, <2>1, <3>1
  <2> QED BY <1>2, <2>1
<1> QED BY <1>1, <1>3, <1>4, <1>5, <1>6, <1>7 DEF LineIsTheWaiting, AInv

(* Nobody sets out and nobody arrives.                                     *)
LEMMA LineStands ==
  ASSUME AInv, UNCHANGED <<line, reservations>>,
         \A d \in Clients : stage_of'[d] = "waiting" <=> stage_of[d] = "waiting"
  PROVE  LineIsTheWaiting'
BY DEF AInv, LineIsTheWaiting

-----------------------------------------------------------------------------
(* What a session's packets leave on record: what the client chose.        *)
LEMMA PublishedIsTold ==
  ASSUME AInv, NEW c \in Clients, NEW profile \in Profiles
  PROVE  publish(c, profile) = [characters EXCEPT ![c] = Tells(profile, chosen[c])]
<1>1. c # Absent
  BY AccountsAssumption
<1>2. chosen[c] = IF characters[c] = Absent THEN NewCharacter(c, c) ELSE characters[c]
  BY DEF AInv, AsChosen
<1> QED BY <1>1, <1>2 DEF publish, Tells

LEMMA NothingToldAgrees ==
  ASSUME NEW choice \in Profiles
  PROVE  Agrees(NoProfile, choice) /\ Agrees(choice, choice)
BY DEF Agrees, Tells, Told, NoProfile, Profiles

LEMMA AgreesByField ==
  ASSUME NEW profile, NEW choice, Agrees(profile, choice)
  PROVE  /\ Told(profile.name, choice.name) = choice.name
         /\ Told(profile.biome, choice.biome) = choice.biome
         /\ Told(profile.look, choice.look) = choice.look
<1>1. Tells(profile, choice) = choice
  BY DEF Agrees
<1>2. /\ Tells(profile, choice).name = Told(profile.name, choice.name)
      /\ Tells(profile, choice).biome = Told(profile.biome, choice.biome)
      /\ Tells(profile, choice).look = Told(profile.look, choice.look)
  BY DEF Tells
<1> QED BY <1>1, <1>2

(* A session that is told what the client has just chosen still agrees.    *)
LEMMA ToldName ==
  ASSUME NEW profile \in Profiles, NEW choice \in Profiles, Agrees(profile, choice),
         NEW name \in CharacterNames, NEW told, NEW now,
         told = [profile EXCEPT !.name = name], now = [choice EXCEPT !.name = name]
  PROVE  Tells(told, choice) = now /\ Agrees(told, now)
BY AgreesByField, AccountsAssumption DEF Agrees, Tells, Told, Profiles

LEMMA ToldLook ==
  ASSUME NEW profile \in Profiles, NEW choice \in Profiles, Agrees(profile, choice),
         NEW look \in Looks, NEW told, NEW now,
         told = [profile EXCEPT !.look = look], now = [choice EXCEPT !.look = look]
  PROVE  Tells(told, choice) = now /\ Agrees(told, now)
BY AgreesByField, AccountsAssumption DEF Agrees, Tells, Told, Profiles

LEMMA ToldBiome ==
  ASSUME NEW profile \in Profiles, NEW choice \in Profiles, Agrees(profile, choice),
         NEW biome \in Biomes \cup {Absent}, NEW told, NEW now,
         told = [profile EXCEPT !.biome = Told(biome, @)],
         now = [choice EXCEPT !.biome = Told(biome, @)]
  PROVE  Tells(told, choice) = now /\ Agrees(told, now)
BY AgreesByField, AccountsAssumption DEF Agrees, Tells, Told, Profiles

-----------------------------------------------------------------------------
(* One step at a time; what it is about is one client's.                   *)
Mine(c) == <<token[c], characters[c], destinations[c], connection[c], stage_of[c], chosen[c],
             heading[c]>>

LEMMA OthersStand ==
  ASSUME AInv, NEW d \in Clients, UNCHANGED Mine(d)
  PROVE  (AsChosen(d) /\ BoundForHeading(d))'
BY DEF AInv, AsChosen, BoundForHeading, Connected, Mine

LEMMA SignInSafe ==
  ASSUME InOrder, AInv, AccountsTyped', NEW c \in Clients,
         LauncherLogin(c) \/ sign_in(c, c) \/ sign_in(c, "")
  PROVE  AInv'
<1>1. /\ stage_of[c] \in {"out", "launched"}
      /\ stage_of' \in {[stage_of EXCEPT ![c] = "launched"], [stage_of EXCEPT ![c] = "signed"]}
      /\ stage_of'[c] = "signed" => token' = [token EXCEPT ![c] = c]
      /\ stage_of'[c] # "signed" => token' = token
  BY DEF LauncherLogin, sign_in, PolicyAccepts, InOrder, AInv, AccountsTyped
<1>2. UNCHANGED <<server_vars, line, chosen, heading>>
  BY DEF LauncherLogin, sign_in
<1>3. LineIsTheWaiting'
  <2>1. \A d \in Clients : stage_of'[d] = "waiting" <=> stage_of[d] = "waiting"
    BY <1>1 DEF AInv, AccountsTyped
  <2> QED BY <1>2, <2>1, LineStands DEF server_vars
<1>4. \A d \in Clients \ {c} : UNCHANGED Mine(d)
  BY <1>1, <1>2 DEF Mine, server_vars, AInv, AccountsTyped
<1>5. stage_of'[c] \in {"launched", "signed"} /\ (stage_of'[c] = "signed" => token'[c] = c)
  BY <1>1 DEF AInv, AccountsTyped
<1>6. (AsChosen(c) /\ BoundForHeading(c))'
  BY <1>1, <1>2, <1>5 DEF AInv, AsChosen, BoundForHeading, Connected, server_vars
<1> QED BY <1>3, <1>4, <1>6, OthersStand DEF AInv

LEMMA CallerIsKnown ==
  ASSUME AInv, NEW c \in Clients, stage_of[c] = "signed"
  PROVE  Caller(c) = c
BY AccountsAssumption DEF AInv, AsChosen, Caller

LEMMA CreateSafe ==
  ASSUME InOrder, AInv, AccountsTyped', NEW c \in Clients,
         ActiveCharacter(c) \/ \E name \in CharacterNames : CreateByRequest(c, name)
  PROVE  AInv'
<1>1. stage_of[c] = "signed" /\ Caller(c) = c /\ characters[c] = Absent
  BY CallerIsKnown DEF ActiveCharacter, CreateByRequest
<1>2. UNCHANGED <<web_vars, reservations, destinations, connection, stage_of, line, heading>>
  BY DEF ActiveCharacter, CreateByRequest, client_vars
<1>3. LineIsTheWaiting'
  BY <1>2, LineStands
<1>4. chosen[c] = NewCharacter(c, c) /\ ~Connected(c)
  BY <1>1 DEF AInv, AsChosen
<1>5. /\ characters'[c] = chosen'[c] /\ characters'[c] # Absent
      /\ \A d \in Clients \ {c} : characters'[d] = characters[d] /\ chosen'[d] = chosen[d]
  <2>1. CASE ActiveCharacter(c)
    <3>1. NewCharacter(c, c) # Absent
      BY ProfilesAreTyped, AccountsAssumption
    <3> QED BY <1>1, <1>4, <2>1, <3>1 DEF ActiveCharacter, client_vars, AInv, AccountsTyped
  <2>2. ASSUME NEW name \in CharacterNames, CreateByRequest(c, name)
        PROVE  /\ characters'[c] = chosen'[c] /\ characters'[c] # Absent
               /\ \A d \in Clients \ {c} : characters'[d] = characters[d] /\ chosen'[d] = chosen[d]
    <3>1. NewCharacter(c, name) # Absent
      BY ProfilesAreTyped, AccountsAssumption
    <3>2. [chosen[c] EXCEPT !.name = name] = NewCharacter(c, name)
      BY <1>4 DEF NewCharacter
    <3> QED BY <1>1, <2>2, <3>1, <3>2 DEF CreateByRequest, AInv, AccountsTyped
  <2> QED BY <2>1, <2>2
<1>6. \A d \in Clients \ {c} : UNCHANGED Mine(d)
  BY <1>2, <1>5 DEF Mine, web_vars
<1>7. (AsChosen(c) /\ BoundForHeading(c))'
  BY <1>1, <1>2, <1>4, <1>5 DEF AInv, AsChosen, BoundForHeading, Connected, web_vars
<1> QED BY <1>3, <1>6, <1>7, OthersStand DEF AInv

LEMMA RetrieveSafe ==
  ASSUME InOrder, AInv, AccountsTyped', NEW c \in Clients, Retrieve(c)
  PROVE  AInv'
<1>1. stage_of[c] = "signed" /\ Caller(c) = c /\ c # Absent
  BY CallerIsKnown, AccountsAssumption DEF Retrieve
<1>2. Sent(c, HomeWorld) /\ reservations' = Reserved(reservations, c)
  BY <1>1 DEF Retrieve
<1>3. UNCHANGED <<web_vars, characters, destinations, connection, chosen>>
  BY DEF Retrieve
<1>4. LineIsTheWaiting'
  BY <1>1, <1>2, LineGrows
<1>5. stage_of'[c] = "waiting" /\ heading'[c] = HomeWorld
      /\ \A d \in Clients \ {c} : stage_of'[d] = stage_of[d] /\ heading'[d] = heading[d]
  BY <1>2 DEF Sent, AInv, AccountsTyped
<1>6. \A d \in Clients \ {c} : UNCHANGED Mine(d)
  BY <1>3, <1>5 DEF Mine, web_vars
<1>7. (AsChosen(c) /\ BoundForHeading(c))'
  BY <1>1, <1>3, <1>5 DEF AInv, AsChosen, BoundForHeading, Connected
<1> QED BY <1>4, <1>6, <1>7, OthersStand DEF AInv

LEMMA ArriveSafe ==
  ASSUME InOrder, AInv, AccountsTyped', NEW c \in Clients, Arrive(c)
  PROVE  AInv'
<1> DEFINE bound   == destinations[c]
           profile == stored_profile(c)
           session == [account |-> c, profile |-> profile, departed |-> FALSE,
                       world |-> IF bound = Absent THEN HomeWorld ELSE bound]
<1>1. reservations # <<>> /\ Head(reservations) = c /\ c # Absent
  BY FirstArrives, AccountsAssumption
<1>2. /\ destinations' = [destinations EXCEPT ![c] = Absent]
      /\ connection' = [connection EXCEPT ![c] = session]
      /\ stage_of' = [stage_of EXCEPT ![c] = IF profile.biome = Absent THEN "creating"
                                             ELSE "playing"]
      /\ stage_of[c] = "waiting"
      /\ UNCHANGED <<web_vars, characters, chosen, heading>>
  BY <1>1 DEF Arrive, Unbound
<1>3. LineIsTheWaiting'
  BY LineMovesUp
<1>4. /\ Agrees(profile, chosen[c])
      /\ profile.biome # Absent => profile = chosen[c]
  <2>1. chosen[c] \in Profiles
    BY DEF AInv, AccountsTyped
  <2>2. profile = IF characters[c] = Absent THEN NoProfile ELSE chosen[c]
    BY <1>1 DEF stored_profile, AInv, AsChosen
  <2>3. NoProfile.biome = Absent
    BY DEF NoProfile
  <2> QED BY <2>1, <2>2, <2>3, NothingToldAgrees
<1>5. session.world = heading[c]
  BY <1>2, AccountsAssumption DEF AInv, BoundForHeading, AccountsTyped
<1>6. session.account = c /\ session.profile = profile
  OBVIOUS
<1>7. \A d \in Clients \ {c} : UNCHANGED Mine(d)
  BY <1>2 DEF Mine, web_vars, AInv, AccountsTyped
<1>8. /\ connection'[c] = session /\ destinations'[c] = Absent
      /\ stage_of'[c] = IF profile.biome = Absent THEN "creating" ELSE "playing"
  BY <1>2 DEF AInv, AccountsTyped
<1> HIDE DEF session, profile
<1>9. (AsChosen(c) /\ BoundForHeading(c))'
  BY <1>2, <1>4, <1>5, <1>6, <1>8 DEF AInv, AsChosen, BoundForHeading, Connected
<1> QED BY <1>3, <1>7, <1>9, OthersStand DEF AInv

(* A packet that tells the session something the client has chosen, or     *)
(* nothing new.                                                            *)
LEMMA PacketSafe ==
  ASSUME AInv, AccountsTyped', NEW c \in Clients, Connected(c),
         NEW session \in Sessions, NEW choice \in Profiles,
         session.account = c,
         Tells(session.profile, chosen[c]) = choice, Agrees(session.profile, choice),
         Handled(c, session), chosen' = [chosen EXCEPT ![c] = choice],
         token' = token
  PROVE  /\ \A d \in Clients \ {c} :
              /\ characters'[d] = characters[d] /\ connection'[d] = connection[d]
              /\ chosen'[d] = chosen[d] /\ token'[d] = token[d]
         /\ connection'[c] = session /\ Connected(c)'
         /\ chosen'[c] = choice
         /\ (\/ stage_of'[c] \in {"creating", "waiting"}
             \/ stage_of'[c] = "playing" /\ session.profile = choice) => AsChosen(c)'
<1>1. session.profile \in Profiles /\ session # Absent
  BY AccountsAssumption DEF Sessions
<1>2. characters' = [characters EXCEPT ![c] = choice]
  BY <1>1, PublishedIsTold DEF Handled
<1>3. choice # Absent
  BY AccountsAssumption
<1>4. connection' = [connection EXCEPT ![c] = session]
  BY DEF Handled
<1>5. /\ characters'[c] = choice /\ connection'[c] = session /\ chosen'[c] = choice
      /\ \A d \in Clients \ {c} :
           /\ characters'[d] = characters[d] /\ connection'[d] = connection[d]
           /\ chosen'[d] = chosen[d] /\ token'[d] = token[d]
  BY <1>2, <1>4 DEF AInv, AccountsTyped
<1>6. Connected(c)'
  BY <1>1, <1>5 DEF Connected
<1> QED BY <1>3, <1>5, <1>6 DEF AsChosen

(* The session of a client that is connected, and the packet that tells it *)
(* nothing.                                                                *)
LEMMA SessionOf ==
  ASSUME AInv, NEW c \in Clients, Connected(c)
  PROVE  /\ connection[c] \in Sessions /\ connection[c].profile \in Profiles
         /\ connection[c].account = c /\ c # Absent
         /\ Agrees(connection[c].profile, chosen[c]) /\ chosen[c] \in Profiles
         /\ chosen = [chosen EXCEPT ![c] = chosen[c]]
<1>1. AccountsTyped
  BY DEF AInv
<1>2. connection[c].account = c /\ Agrees(connection[c].profile, chosen[c])
  BY DEF AInv, AsChosen
<1>3. chosen \in [Clients -> Profiles]
  BY <1>1 DEF AccountsTyped
<1> QED BY <1>1, <1>2, <1>3, SessionIsTyped, AccountsAssumption

LEMMA CustomiseSafe ==
  ASSUME InOrder, AInv, AccountsTyped', NEW c \in Clients,
         \/ \E name \in CharacterNames : SaveCharacterName(c, name)
         \/ \E look \in Looks : SetCharacterCustomisation(c, look)
  PROVE  AInv'
<1>1. stage_of[c] = "creating" /\ Connected(c)
  BY DEF SaveCharacterName, SetCharacterCustomisation, AInv, AccountsTyped
<1>2. UNCHANGED <<web_vars, reservations, destinations, stage_of, line, heading>>
  BY DEF SaveCharacterName, SetCharacterCustomisation
<1>3. LineIsTheWaiting'
  BY <1>2, LineStands
<1>4. ASSUME NEW session \in Sessions, NEW choice \in Profiles, session.account = c,
             Tells(session.profile, chosen[c]) = choice, Agrees(session.profile, choice),
             Handled(c, session), chosen' = [chosen EXCEPT ![c] = choice]
      PROVE  AInv'
  <2>1. token' = token /\ stage_of'[c] = "creating"
    BY <1>1, <1>2 DEF web_vars
  <2>2. AsChosen(c)' /\ \A d \in Clients \ {c} : UNCHANGED Mine(d)
    <3>1. /\ \A d \in Clients \ {c} :
               /\ characters'[d] = characters[d] /\ connection'[d] = connection[d]
               /\ chosen'[d] = chosen[d] /\ token'[d] = token[d]
          /\ AsChosen(c)'
      BY <1>1, <1>4, <2>1, PacketSafe
    <3> QED BY <1>2, <3>1 DEF Mine
  <2>3. BoundForHeading(c)'
    BY <1>1, <1>2 DEF AInv, BoundForHeading
  <2> QED BY <1>3, <2>2, <2>3, OthersStand DEF AInv
<1>5. ASSUME NEW name \in CharacterNames, SaveCharacterName(c, name)
      PROVE  AInv'
  <2> DEFINE session == [connection[c] EXCEPT !.profile.name = name]
             choice  == [chosen[c] EXCEPT !.name = name]
  <2>1. session \in Sessions /\ choice \in Profiles /\ session.account = c
        /\ session.profile = [connection[c].profile EXCEPT !.name = name]
    BY <1>1, SessionOf DEF Sessions, Profiles
  <2>2. Tells(session.profile, chosen[c]) = choice /\ Agrees(session.profile, choice)
    <3> HIDE DEF session
    <3> QED BY <1>1, <2>1, SessionOf, ToldName
  <2>3. Handled(c, session) /\ chosen' = [chosen EXCEPT ![c] = choice]
    BY <1>5 DEF SaveCharacterName
  <2> HIDE DEF session, choice
  <2> QED BY <1>4, <2>1, <2>2, <2>3
<1>6. ASSUME NEW look \in Looks, SetCharacterCustomisation(c, look)
      PROVE  AInv'
  <2> DEFINE session == [connection[c] EXCEPT !.profile.look = look]
             choice  == [chosen[c] EXCEPT !.look = look]
  <2>1. session \in Sessions /\ choice \in Profiles /\ session.account = c
        /\ session.profile = [connection[c].profile EXCEPT !.look = look]
    BY <1>1, SessionOf DEF Sessions, Profiles
  <2>2. Tells(session.profile, chosen[c]) = choice /\ Agrees(session.profile, choice)
    <3> HIDE DEF session
    <3> QED BY <1>1, <2>1, SessionOf, ToldLook
  <2>3. Handled(c, session) /\ chosen' = [chosen EXCEPT ![c] = choice]
    BY <1>6 DEF SetCharacterCustomisation
  <2> HIDE DEF session, choice
  <2> QED BY <1>4, <2>1, <2>2, <2>3
<1> QED BY <1>5, <1>6

(* What a client that is sent somewhere leaves behind.                     *)
LEMMA SentSafe ==
  ASSUME AInv, NEW c \in Clients, NEW w, Sent(c, w)
  PROVE  /\ stage_of'[c] = "waiting" /\ heading'[c] = w
         /\ \A d \in Clients \ {c} : stage_of'[d] = stage_of[d] /\ heading'[d] = heading[d]
BY DEF Sent, AInv, AccountsTyped

LEMMA CreateHomeworldSafe ==
  ASSUME InOrder, AInv, AccountsTyped', NEW c \in Clients, NEW biome \in Biomes \cup {Absent},
         CreateHomeworld(c, biome)
  PROVE  AInv'
<1>1. stage_of[c] = "creating" /\ Connected(c) /\ stage_of[c] # "waiting"
  BY DEF CreateHomeworld, AInv, AccountsTyped
<1>2. UNCHANGED <<web_vars, destinations>> /\ Sent(c, HomeWorld)
  BY DEF CreateHomeworld
<1>3. reservations' = Reserved(reservations, c)
  BY <1>1, SessionOf DEF CreateHomeworld, ExpectedBack
<1>4. LineIsTheWaiting'
  BY <1>1, <1>2, <1>3, LineGrows
<1> DEFINE session == [connection[c] EXCEPT !.profile.biome = Told(biome, @)]
           choice  == [chosen[c] EXCEPT !.biome = Told(biome, @)]
<1>5. session \in Sessions /\ choice \in Profiles /\ session.account = c
      /\ session.profile = [connection[c].profile EXCEPT !.biome = Told(biome, @)]
  BY <1>1, SessionOf DEF Sessions, Profiles, Told
<1>6. Tells(session.profile, chosen[c]) = choice /\ Agrees(session.profile, choice)
  <2>1. choice = [chosen[c] EXCEPT !.biome = Told(biome, @)]
    OBVIOUS
  <2>2. /\ connection[c].profile \in Profiles /\ chosen[c] \in Profiles
        /\ Agrees(connection[c].profile, chosen[c])
    BY <1>1, SessionOf
  <2> HIDE DEF session, choice
  <2> QED BY <1>5, <2>1, <2>2, ToldBiome
<1>7. Handled(c, session) /\ chosen' = [chosen EXCEPT ![c] = choice] /\ token' = token
  BY <1>2 DEF CreateHomeworld, web_vars
<1> HIDE DEF session, choice
<1>8. /\ AsChosen(c)'
      /\ \A d \in Clients \ {c} :
           /\ characters'[d] = characters[d] /\ connection'[d] = connection[d]
           /\ chosen'[d] = chosen[d] /\ token'[d] = token[d]
  BY <1>1, <1>2, <1>5, <1>6, <1>7, PacketSafe, SentSafe
<1>9. \A d \in Clients \ {c} : UNCHANGED Mine(d)
  BY <1>2, <1>8, SentSafe DEF Mine
<1>10. BoundForHeading(c)'
  BY <1>1, <1>2, SentSafe DEF AInv, BoundForHeading
<1> QED BY <1>4, <1>8, <1>9, <1>10, OthersStand DEF AInv

(* A client sets off from the world it plays in.                           *)
LEMMA DepartSafe ==
  ASSUME InOrder, AInv, AccountsTyped', NEW c \in Clients, NEW w \in Rifts \cup {HomeWorld},
         stage_of[c] = "playing", Depart(c, w)
  PROVE  AInv'
<1>1. Connected(c) /\ stage_of[c] # "waiting"
  BY DEF AInv, AccountsTyped
<1>2. Sent(c, w) /\ UNCHANGED <<web_vars, chosen>>
  BY DEF Depart
<1>3. /\ reservations' = Reserved(reservations, c)
      /\ destinations' = [destinations EXCEPT ![c] = IF w = HomeWorld THEN Absent ELSE w]
  BY <1>1, SessionOf DEF Depart, ExpectedBack
<1>4. LineIsTheWaiting'
  BY <1>1, <1>2, <1>3, LineGrows
<1> DEFINE session == [connection[c] EXCEPT !.departed = TRUE]
<1>5. session \in Sessions /\ session.account = c /\ session.profile = connection[c].profile
      /\ session.departed
  <2>1. connection[c] \in Sessions /\ connection[c].account = c
    BY <1>1, SessionOf
  <2> QED BY <2>1 DEF Sessions
<1>6. Tells(session.profile, chosen[c]) = chosen[c] /\ Agrees(session.profile, chosen[c])
  BY <1>1, <1>5, SessionOf DEF Agrees
<1>7. Handled(c, session) /\ token' = token
  BY <1>2 DEF Depart, web_vars
<1>8. chosen[c] \in Profiles /\ chosen' = [chosen EXCEPT ![c] = chosen[c]]
  BY <1>1, <1>2, SessionOf
<1> HIDE DEF session
<1>9. /\ AsChosen(c)' /\ connection'[c] = session
      /\ \A d \in Clients \ {c} :
           /\ characters'[d] = characters[d] /\ connection'[d] = connection[d]
           /\ chosen'[d] = chosen[d] /\ token'[d] = token[d]
  <2>1. stage_of'[c] = "waiting"
    BY <1>2, SentSafe
  <2> QED BY <1>1, <1>5, <1>6, <1>7, <1>8, <2>1, PacketSafe
<1>10. \A d \in Clients \ {c} : UNCHANGED Mine(d)
  BY <1>2, <1>3, <1>9, SentSafe DEF Mine, AInv, AccountsTyped
<1>11. BoundForHeading(c)'
  <2>1. destinations'[c] = IF w = HomeWorld THEN Absent ELSE w
    BY <1>3 DEF AInv, AccountsTyped
  <2> QED BY <1>2, <1>5, <1>9, <2>1, SentSafe DEF BoundForHeading
<1> QED BY <1>4, <1>9, <1>10, <1>11, OthersStand DEF AInv

(* A client that waits for its new world has set off already, and what it  *)
(* does in the portal it stands in changes nothing.                        *)
LEMMA PortalSafe ==
  ASSUME InOrder, AInv, AccountsTyped', NEW c \in Clients, NEW w \in Rifts,
         StepThroughPortal(c, w)
  PROVE  AInv'
<1>1. stage_of[c] = "playing"
  BY AccountsAssumption DEF StepThroughPortal, Depart, SetsOff, AInv, BoundForHeading
<1> QED BY <1>1, DepartSafe DEF StepThroughPortal

LEMMA SendPacketSafe ==
  ASSUME InOrder, AInv, AccountsTyped', NEW c \in Clients, SendPacket(c)
  PROVE  AInv'
<1>1. Connected(c) /\ Handled(c, connection[c])
      /\ UNCHANGED <<web_vars, reservations, destinations, client_vars>>
  BY DEF SendPacket
<1>2. LineIsTheWaiting'
  BY <1>1, LineStands DEF client_vars
<1>3. token' = token /\ stage_of' = stage_of /\ chosen' = chosen /\ heading' = heading
  BY <1>1 DEF web_vars, client_vars
<1>4. stage_of[c] \in {"creating", "waiting", "playing"}
      /\ (stage_of[c] = "playing" => connection[c].profile = chosen[c])
  BY <1>1 DEF AInv, AsChosen, AccountsTyped, Stages
<1>5. /\ AsChosen(c)' /\ connection'[c] = connection[c]
      /\ \A d \in Clients \ {c} :
           /\ characters'[d] = characters[d] /\ connection'[d] = connection[d]
           /\ chosen'[d] = chosen[d] /\ token'[d] = token[d]
  <2>1. Tells(connection[c].profile, chosen[c]) = chosen[c]
    BY <1>1, SessionOf DEF Agrees
  <2> QED BY <1>1, <1>3, <1>4, <2>1, SessionOf, PacketSafe
<1>6. \A d \in Clients \ {c} : UNCHANGED Mine(d)
  BY <1>1, <1>3, <1>5 DEF Mine
<1>7. BoundForHeading(c)'
  BY <1>1, <1>3, <1>5 DEF AInv, BoundForHeading, Connected
<1> QED BY <1>2, <1>5, <1>6, <1>7, OthersStand DEF AInv

LEMMA LoseConnectionSafe ==
  ASSUME InOrder, AInv, AccountsTyped', NEW c \in Clients, LoseConnection(c)
  PROVE  AInv'
<1>1. /\ connection' = [connection EXCEPT ![c] = Absent]
      /\ stage_of' = IF stage_of[c] = "waiting" THEN stage_of ELSE [stage_of EXCEPT ![c] = "out"]
      /\ UNCHANGED <<web_vars, characters, reservations, destinations, line, chosen, heading>>
  BY DEF LoseConnection
<1>2. \A d \in Clients \ {c} : stage_of'[d] = stage_of[d]
  BY <1>1 DEF AInv, AccountsTyped
<1>3. stage_of'[c] = IF stage_of[c] = "waiting" THEN "waiting" ELSE "out"
  BY <1>1 DEF AInv, AccountsTyped
<1>4. LineIsTheWaiting'
  BY <1>1, <1>2, <1>3, LineStands
<1>5. \A d \in Clients \ {c} : UNCHANGED Mine(d)
  BY <1>1, <1>2 DEF Mine, web_vars, AInv, AccountsTyped
<1>6. ~Connected(c)'
  BY <1>1 DEF Connected, AInv, AccountsTyped
<1>7. (AsChosen(c) /\ BoundForHeading(c))'
  BY <1>1, <1>3, <1>6 DEF AInv, AsChosen, BoundForHeading, web_vars
<1> QED BY <1>4, <1>5, <1>7, OthersStand DEF AInv

LEMMA ResetSafe ==
  ASSUME InOrder, AInv, AccountsTyped', NEW c \in Clients, ResetCharacter(c)
  PROVE  AInv'
<1>1. ~Connected(c)
  BY DEF ResetCharacter, InOrder, AInv, AsChosen
<1>2. /\ characters' = [characters EXCEPT ![c] = Absent]
      /\ chosen' = [chosen EXCEPT ![c] = NewCharacter(c, c)]
      /\ UNCHANGED <<web_vars, reservations, destinations, connection, stage_of, line, heading>>
  BY DEF ResetCharacter
<1>3. LineIsTheWaiting'
  BY <1>2, LineStands
<1>4. \A d \in Clients \ {c} : UNCHANGED Mine(d)
  BY <1>2 DEF Mine, web_vars, AInv, AccountsTyped
<1>5. stage_of[c] \notin {"creating", "playing"}
  BY <1>1 DEF AInv, AccountsTyped
<1>6. characters'[c] = Absent /\ chosen'[c] = NewCharacter(c, c)
  BY <1>2 DEF AInv, AccountsTyped
<1>7. (AsChosen(c) /\ BoundForHeading(c))'
  BY <1>1, <1>2, <1>5, <1>6 DEF AInv, AsChosen, BoundForHeading, Connected, web_vars
<1> QED BY <1>3, <1>4, <1>7, OthersStand DEF AInv

-----------------------------------------------------------------------------
LEMMA StepSafe == InOrder /\ AInv /\ [AccountsNext]_account_vars => AInv'
<1> SUFFICES ASSUME InOrder, AInv, [AccountsNext]_account_vars PROVE AInv'
  OBVIOUS
<1>1. AccountsTyped'
  BY StepIsTyped DEF AInv
<1>2. CASE UNCHANGED account_vars
  <2>1. LineIsTheWaiting'
    BY <1>2, LineStands DEF account_vars, server_vars, client_vars
  <2>2. \A d \in Clients : UNCHANGED Mine(d)
    BY <1>2 DEF Mine, account_vars, web_vars, server_vars, client_vars
  <2> QED BY <1>1, <2>1, <2>2, OthersStand DEF AInv
<1>3. ASSUME NEW c \in Clients, JoinHomeWorld(c)
      PROVE  AInv'
  BY <1>1, <1>3, DepartSafe DEF JoinHomeWorld
<1> QED BY <1>1, <1>2, <1>3, SignInSafe, CreateSafe, RetrieveSafe, ArriveSafe, CustomiseSafe,
           CreateHomeworldSafe, PortalSafe, SendPacketSafe, LoseConnectionSafe, ResetSafe
        DEF AccountsNext

LEMMA InitSafe == AccountsInit => AInv
<1> SUFFICES ASSUME AccountsInit PROVE AInv
  OBVIOUS
<1>1. AccountsTyped
  BY InitIsTyped
<1>2. LineIsTheWaiting
  BY DEF AccountsInit, LineIsTheWaiting
<1>3. \A c \in Clients : AsChosen(c) /\ BoundForHeading(c)
  BY DEF AccountsInit, AsChosen, BoundForHeading, Connected
<1> QED BY <1>1, <1>2, <1>3 DEF AInv

(* The reservations are the clients on their way, one each and in the      *)
(* order they come; characters, sessions and destinations belong to those  *)
(* they are kept for (reserve_slot, claim_reservation, publish).           *)
THEOREM LineIsKept == InOrder => (AccountsSpec => []AInv)
<1> SUFFICES ASSUME InOrder PROVE AccountsSpec => []AInv
  OBVIOUS
<1>1. AccountsInit => AInv
  BY InitSafe
<1>2. AInv /\ [AccountsNext]_account_vars => AInv'
  BY StepSafe
<1> QED BY <1>1, <1>2, PTL DEF AccountsSpec

(* Every connection is the account of the client that made it, and whoever *)
(* plays is the character it made (server.rs, drain and publish).          *)
THEOREM PlayersArriveAsThemselves == InOrder => (AccountsSpec => []ArriveAsThemselves)
<1>1. AInv => ArriveAsThemselves
  BY DEF AInv, AsChosen, ArriveAsThemselves
<1> QED BY <1>1, LineIsKept, PTL

(* Every player is in the world the client was sent to last, and an earlier *)
(* journey does not come back (server.rs, claim of a destination).         *)
THEOREM PlayersArriveWhereSent == InOrder => (AccountsSpec => []ArriveWhereSent)
<1>1. AInv => ArriveWhereSent
  BY DEF AInv, BoundForHeading, ArriveWhereSent
<1> QED BY <1>1, LineIsKept, PTL

-----------------------------------------------------------------------------
(* Keepsakes: types. *)

Moment  == Nat \cup {Unset}
Teaches == Lore \cup {Unset}
Detail  == [left : Moment, born : Moment, lore : Teaches]
Truths  == [left : [Pieces -> Moment], born : [Pieces -> Moment],
            lore : [Pieces -> Teaches], given : SUBSET Pieces]

Layouts  == UNION {[some -> Pieces] : some \in SUBSET Slots}
Progress == [details : UNION {[some -> Detail] : some \in SUBSET Slots},
             recipes : SUBSET Teaches, truth : Truths]
Records  == [items : Layouts, progress : Progress]

Entries == {Entry("items", layout, paired) : layout \in Layouts, paired \in BOOLEAN}
             \cup {Entry("progress", p, paired) : p \in Progress, paired \in BOOLEAN}

KeepTyped ==
  /\ rack \in [Slots -> Pieces \cup {Nobody}]
  /\ parked \in Pieces \cup {Nobody}
  /\ wear \in [Pieces -> Moment]
  /\ minted \in [Pieces -> Moment]
  /\ taught \in [Pieces -> Teaches]
  /\ by_id \in [Teachers -> Lore]
  /\ learned \in SUBSET Teaches
  /\ phase \in {"away", "playing", "restored"}
  /\ clock \in Nat
  /\ shelf \in Records
  /\ archive \in Records
  /\ pipeline \in Seq(Entries)
  /\ truth \in Truths
  /\ refused \in SUBSET {"items", "progress"}
  /\ torn \in BOOLEAN

-----------------------------------------------------------------------------
(* What is so until a restart finds records of two ticks.                  *)

(* A detail says of a stack what it has been through.                      *)
Follows(detail, p, been) ==
  /\ p \in Durables => detail.left = been.left[p]
  /\ p \in Stones   => detail.born = been.born[p]
  /\ p \in Teachers => detail.lore = been.lore[p]

(* Nothing has happened to a stack nobody has had yet, and what a scroll   *)
(* or a deed teaches is known from the first.                              *)
Sound(been) ==
  /\ \A p \in Pieces \ been.given : been.left[p] = Unset /\ been.born[p] = Unset
  /\ \A p \in been.given \cap Teachers : been.lore[p] \in Lore

(* The two records belong together.                                        *)
Whole(kept) ==
  /\ DOMAIN kept.progress.details = DOMAIN kept.items
  /\ \A i, j \in DOMAIN kept.items : kept.items[i] = kept.items[j] => i = j
  /\ \A i \in DOMAIN kept.items :
       /\ kept.items[i] \in kept.progress.truth.given
       /\ Follows(kept.progress.details[i], kept.items[i], kept.progress.truth)
  /\ Sound(kept.progress.truth)

(* The same of the session: every stack is in one place, and what is still *)
(* to come has no details.                                                 *)
OneOfEach(r, spare) ==
  /\ \A i, j \in Slots : r[i] = r[j] /\ r[i] # Nobody => i = j
  /\ \A i \in Slots : r[i] # spare \/ spare = Nobody

Carried(r, spare) == ({r[i] : i \in Slots} \cup {spare}) \ {Nobody}

TrueTo(r, spare, details, been) ==
  /\ OneOfEach(r, spare)
  /\ Carried(r, spare) \subseteq been.given
  /\ Sound(been)
  /\ \A p \in Carried(r, spare) : Follows(details[p], p, been)

Live ==
  /\ TrueTo(rack, parked, details_of, truth)
  /\ \A p \in Pieces \ truth.given :
       wear[p] = Unset /\ minted[p] = Unset /\ taught[p] = Unset

(* What the database will hold is what the shared state holds, but for a   *)
(* record whose last write it refused; and what it holds belongs together  *)
(* unless it has refused one of them, or the second of two is still to     *)
(* come.                                                                   *)
IsItems(entry) == entry.field = "items" /\ entry.value = shelf.items /\ ~entry.paired
IsProgress(entry) == entry.field = "progress" /\ entry.value = shelf.progress

UpToDate(field) == field \notin refused => archive[field] = shelf[field]
ArchiveIsWhole == refused = {} => Whole(archive)

OnTheWay ==
  \/ pipeline = <<>> /\ UpToDate("items") /\ UpToDate("progress")
  \/ /\ Len(pipeline) = 1 /\ IsItems(pipeline[1])
     /\ UpToDate("progress") /\ ArchiveIsWhole
  \/ /\ Len(pipeline) = 1 /\ IsProgress(pipeline[1])
     /\ UpToDate("items") /\ (ArchiveIsWhole \/ pipeline[1].paired)
  \/ /\ Len(pipeline) = 2 /\ IsItems(pipeline[1]) /\ IsProgress(pipeline[2])
     /\ pipeline[2].paired /\ ArchiveIsWhole

KeepInv ==
  /\ phase # "restored" => parked = Nobody /\ truth = shelf.progress.truth
  /\ ~torn => /\ Whole(shelf) /\ OnTheWay
              /\ phase = "restored" => Live

-----------------------------------------------------------------------------
(* Lemmas about the operators. *)

(* A scan of squares that finds anything stops at one of them.             *)
LEMMA LeastIsMember ==
  ASSUME NEW S, S \subseteq Nat, S # {}
  PROVE  Min(S) \in S
<1> DEFINE R == OpToRel(<, Nat)
<1>1. \A x, y \in Nat : y < x => <<y, x>> \in R
  BY DEF OpToRel
<1>2. IsWellFoundedOn(R, Nat)
  BY NatLessThanWellFounded
<1> HIDE DEF R
<1>3. PICK x \in S : \A y \in S : ~(<<y, x>> \in R)
  BY <1>2, WFMin
<1>4. ASSUME NEW y \in S
      PROVE  x <= y
  <2>1. x \in Nat /\ y \in Nat
    OBVIOUS
  <2>2. ~(y < x)
    BY <1>1, <1>3, <2>1, Zenon
  <2> QED BY <2>1, <2>2
<1> QED BY <1>4 DEF Min

(* What is written down is what is carried or parked, each at most once.   *)
LEMMA LayoutIsOfTheCarried ==
  ASSUME NEW r \in [Slots -> Pieces \cup {Nobody}], NEW spare \in Pieces \cup {Nobody}
  PROVE  /\ stored_layout(r, spare) \in Layouts
         /\ \A i \in DOMAIN stored_layout(r, spare) :
              stored_layout(r, spare)[i] \in Carried(r, spare)
         /\ OneOfEach(r, spare) =>
              \A i, j \in DOMAIN stored_layout(r, spare) :
                stored_layout(r, spare)[i] = stored_layout(r, spare)[j] => i = j
<1> DEFINE free   == {i \in Slots : r[i] = Nobody}
           back   == IF spare = Nobody \/ free = {} THEN {} ELSE {Min(free)}
           held   == {j \in Slots : r[j] # Nobody}
           layout == [i \in held \cup back |-> IF r[i] = Nobody THEN spare ELSE r[i]]
<1>1. stored_layout(r, spare) = layout
  BY DEF stored_layout
<1>2. back # {} => Min(free) \in free /\ spare # Nobody
  <2>1. free \subseteq Nat
    BY DEF Slots
  <2> HIDE DEF free
  <2>2. free # {} => Min(free) \in free
    BY <2>1, LeastIsMember
  <2> QED BY <2>2
<1>3. back \subseteq free /\ \A i, j \in back : i = j
  BY <1>2
<1>4. \A i \in back : layout[i] = spare /\ spare # Nobody
  BY <1>2, <1>3
<1>5. \A i \in held : layout[i] = r[i] /\ r[i] \in Pieces
  OBVIOUS
<1>6. layout \in Layouts
  <2>1. held \cup back \subseteq Slots
    BY <1>3
  <2>2. layout \in [held \cup back -> Pieces]
    BY <1>4, <1>5
  <2> QED BY <2>1, <2>2 DEF Layouts
<1>7. \A i \in held \cup back : layout[i] \in Carried(r, spare)
  BY <1>4, <1>5 DEF Carried
<1>8. ASSUME OneOfEach(r, spare), NEW i \in held \cup back, NEW j \in held \cup back,
             layout[i] = layout[j]
      PROVE  i = j
  BY <1>3, <1>4, <1>5, <1>8 DEF OneOfEach
<1>9. DOMAIN layout = held \cup back
  OBVIOUS
<1> HIDE DEF layout, held, back
<1> QED BY <1>1, <1>6, <1>7, <1>8, <1>9

(* What a detail comes back to. *)
LEMMA FromDetailsIsTyped ==
  ASSUME NEW items, NEW details, NEW field, NEW V, NEW unset \in [Pieces -> V],
         \A i \in DOMAIN items \cap DOMAIN details : details[i][field] \in V
  PROVE  FromDetails(items, details, field, unset) \in [Pieces -> V]
BY DEF FromDetails

LEMMA FromDetailsFollows ==
  ASSUME NEW items, NEW details, NEW field, NEW unset,
         DOMAIN items = DOMAIN details,
         \A i, j \in DOMAIN items : items[i] = items[j] => i = j
  PROVE  /\ \A i \in DOMAIN items : items[i] \in Pieces =>
              FromDetails(items, details, field, unset)[items[i]] = details[i][field]
         /\ \A p \in Pieces : (\A i \in DOMAIN items : items[i] # p) =>
              FromDetails(items, details, field, unset)[p] = unset[p]
<1>1. ASSUME NEW i \in DOMAIN items, items[i] \in Pieces
      PROVE  FromDetails(items, details, field, unset)[items[i]] = details[i][field]
  <2> DEFINE same == {j \in DOMAIN items \cap DOMAIN details : items[j] = items[i]}
  <2>1. \E j \in DOMAIN items \cap DOMAIN details : items[j] = items[i]
    OBVIOUS
  <2>2. (CHOOSE j \in DOMAIN items \cap DOMAIN details : items[j] = items[i]) = i
    BY <2>1
  <2> QED BY <1>1, <2>1, <2>2 DEF FromDetails
<1> QED BY <1>1 DEF FromDetails

LEMMA AllUnsetIsTyped == AllUnset \in [Pieces -> Moment] /\ AllUnset \in [Pieces -> Teaches]
BY DEF AllUnset, Moment, Teaches

LEMMA UnreadIsTyped == Unread \in [Teachers -> Lore]
BY KeepsakesAssumption DEF Unread

LEMMA TeachesIsTyped ==
  ASSUME taught \in [Pieces -> Teaches], by_id \in [Teachers -> Lore], NEW p \in Pieces
  PROVE  teaches(p) \in Teaches /\ (p \in Teachers => teaches(p) \in Lore)
BY DEF teaches, Teaches

LEMMA DetailsAreTyped ==
  ASSUME wear \in [Pieces -> Moment], minted \in [Pieces -> Moment],
         taught \in [Pieces -> Teaches], by_id \in [Teachers -> Lore]
  PROVE  details_of \in [Pieces -> Detail]
BY TeachesIsTyped DEF details_of, Detail

LEMMA NothingKeptIsTyped ==
  /\ NothingTrue \in Truths /\ NothingKept \in Records
  /\ Sound(NothingTrue) /\ Whole(NothingKept)
<1>1. NothingTrue \in Truths /\ Sound(NothingTrue)
  BY AllUnsetIsTyped DEF NothingTrue, Truths, Sound, AllUnset
<1>2. [i \in {} |-> Nobody] \in Layouts
  BY DEF Layouts
<1>3. [i \in {} |-> Unset] \in UNION {[some -> Detail] : some \in SUBSET Slots}
  OBVIOUS
<1>4. NothingKept \in Records
  BY <1>1, <1>2, <1>3 DEF NothingKept, Records, Progress
<1>5. Whole(NothingKept)
  BY <1>1 DEF NothingKept, Whole
<1> QED BY <1>1, <1>4, <1>5

-----------------------------------------------------------------------------
(* Types. *)

LEMMA CarryIsTyped ==
  ASSUME KeepTyped,
         \/ \E p \in Pieces, lore \in Lore : Obtain(p, lore)
         \/ \E i, j \in Slots : MoveStack(i, j)
         \/ \E i \in Slots : Park(i)
         \/ Unpark
         \/ Pass \/ KeepJoin
  PROVE  KeepTyped'
<1>1. ASSUME NEW p \in Pieces, NEW lore \in Lore, Obtain(p, lore)
      PROVE  KeepTyped'
  <2>1. rack' \in [Slots -> Pieces \cup {Nobody}]
    BY <1>1 DEF KeepTyped, Obtain
  <2>2. truth' \in Truths
    <3>1. truth \in Truths /\ truth.given \cup {p} \subseteq Pieces
          /\ [truth.lore EXCEPT ![p] = lore] \in [Pieces -> Teaches]
      BY DEF KeepTyped, Truths, Teaches
    <3>2. \/ truth' = [truth EXCEPT !.given = truth.given \cup {p}]
          \/ truth' = [truth EXCEPT !.given = truth.given \cup {p},
                                   !.lore = [truth.lore EXCEPT ![p] = lore]]
      BY <1>1 DEF Obtain
    <3> QED BY <3>1, <3>2 DEF Truths
  <2>3. by_id' \in [Teachers -> Lore]
    BY <1>1 DEF KeepTyped, Obtain
  <2> QED BY <1>1, <2>1, <2>2, <2>3 DEF KeepTyped, Obtain, store
<1>2. ASSUME NEW i \in Slots, NEW j \in Slots, MoveStack(i, j)
      PROVE  KeepTyped'
  BY <1>2 DEF KeepTyped, MoveStack, store, maps
<1>3. ASSUME NEW i \in Slots, Park(i)
      PROVE  KeepTyped'
  BY <1>3 DEF KeepTyped, Park, store, maps
<1>4. CASE Unpark
  BY <1>4 DEF KeepTyped, Unpark, store, maps
<1>5. CASE Pass
  BY <1>5 DEF KeepTyped, Pass, store, maps
<1>6. CASE KeepJoin
  BY <1>6 DEF KeepTyped, KeepJoin, store, maps
<1> QED BY <1>1, <1>2, <1>3, <1>4, <1>5, <1>6

LEMMA UseIsTyped ==
  ASSUME KeepTyped,
         \/ \E p \in Durables : wear_held(p)
         \/ Mend
         \/ \E p \in Scrolls : learn_recipe(p)
         \/ \E p \in Deeds : learn_home_title(p)
  PROVE  KeepTyped'
<1>1. ASSUME NEW p \in Durables, wear_held(p)
      PROVE  KeepTyped'
  <2>1. p \in Pieces /\ Left(p) \in Nat /\ Left(p) - 1 \in Moment
    BY <1>1, KeepsakesAssumption DEF KeepTyped, wear_held, Left, Moment, Pieces
  <2>2. wear' \in [Pieces -> Moment] /\ truth' \in Truths
    BY <1>1, <2>1 DEF KeepTyped, wear_held, Truths
  <2> QED BY <1>1, <2>2 DEF KeepTyped, wear_held, store
<1>2. CASE Mend
  <2>1. parked \in Pieces
    BY <1>2 DEF Mend, Pieces
  <2>2. wear' \in [Pieces -> Moment] /\ truth' \in Truths
    BY <1>2, <2>1 DEF KeepTyped, Mend, Truths, Moment
  <2> QED BY <1>2, <2>2 DEF KeepTyped, Mend, store
<1>3. \A p \in Pieces : Spent(p) \in [Slots -> Pieces \cup {Nobody}]
  BY DEF Spent, KeepTyped
<1>4. ASSUME NEW p \in Scrolls, learn_recipe(p)
      PROVE  KeepTyped'
  <2>1. p \in Pieces
    BY DEF Pieces
  <2>2. learned' \in SUBSET Teaches
    BY <1>4, <2>1, TeachesIsTyped DEF KeepTyped, learn_recipe
  <2> QED BY <1>3, <1>4, <2>1, <2>2 DEF KeepTyped, learn_recipe, store, maps
<1>5. ASSUME NEW p \in Deeds, learn_home_title(p)
      PROVE  KeepTyped'
  <2>1. p \in Pieces
    BY DEF Pieces
  <2> QED BY <1>3, <1>5, <2>1 DEF KeepTyped, learn_home_title, store, maps
<1> QED BY <1>1, <1>2, <1>4, <1>5

(* The session's half of the tick. *)
SessionTyped ==
  /\ rack \in [Slots -> Pieces \cup {Nobody}]
  /\ wear \in [Pieces -> Moment]
  /\ minted \in [Pieces -> Moment]
  /\ taught \in [Pieces -> Teaches]
  /\ by_id \in [Teachers -> Lore]
  /\ learned \in SUBSET Teaches
  /\ phase = "restored"
  /\ truth \in Truths

LEMMA RestoreIsTyped ==
  ASSUME KeepTyped, restore_items
  PROVE  SessionTyped'
<1> DEFINE items   == shelf.items
           details == shelf.progress.details
<1>1. PICK some \in SUBSET Slots : items \in [some -> Pieces]
  BY DEF KeepTyped, Records, Layouts
<1>2. PICK few \in SUBSET Slots : details \in [few -> Detail]
  BY DEF KeepTyped, Records, Progress
<1>3. rack' \in [Slots -> Pieces \cup {Nobody}]
  BY <1>1 DEF restore_items
<1>4. wear' \in [Pieces -> Moment]
  <2>1. \A i \in DOMAIN items \cap DOMAIN details : details[i]["left"] \in Moment
    BY <1>2 DEF Detail
  <2> HIDE DEF items, details
  <2>2. wear' = FromDetails(items, details, "left", AllUnset)
    BY DEF restore_items, items, details
  <2> QED BY <2>1, <2>2, FromDetailsIsTyped, AllUnsetIsTyped
<1>5. minted' \in [Pieces -> Moment]
  <2>1. \A i \in DOMAIN items \cap DOMAIN details : details[i]["born"] \in Moment
    BY <1>2 DEF Detail
  <2> HIDE DEF items, details
  <2>2. minted' = FromDetails(items, details, "born", AllUnset)
    BY DEF restore_items, RestoredStamps, items, details
  <2> QED BY <2>1, <2>2, FromDetailsIsTyped, AllUnsetIsTyped
<1>6. taught' \in [Pieces -> Teaches]
  <2>1. \A i \in DOMAIN items \cap DOMAIN details : details[i]["lore"] \in Teaches
    BY <1>2 DEF Detail
  <2> HIDE DEF items, details
  <2>2. taught' = FromDetails(items, details, "lore", AllUnset)
    BY DEF restore_items, items, details
  <2> QED BY <2>1, <2>2, FromDetailsIsTyped, AllUnsetIsTyped
<1>7. by_id' \in [Teachers -> Lore]
  <2>1. PICK ids \in [Teachers \cap Range(items) -> Lore] :
          by_id' = [p \in Teachers |-> IF p \in Range(items) THEN ids[p] ELSE Unread[p]]
    BY DEF restore_items
  <2> HIDE DEF items
  <2> QED BY <2>1, UnreadIsTyped
<1>8. learned' \in SUBSET Teaches
  BY DEF restore_items, KeepTyped, Records, Progress
<1> QED BY <1>3, <1>4, <1>5, <1>6, <1>7, <1>8 DEF SessionTyped, restore_items, KeepTyped

LEMMA ExpireIsTyped ==
  ASSUME KeepTyped, phase = "restored", expire_items
  PROVE  SessionTyped'
<1>1. rack' \in [Slots -> Pieces \cup {Nobody}]
  BY DEF KeepTyped, expire_items
<1>2. \A p \in Pieces : Began(p) \in Nat
  BY DEF KeepTyped, Began, Moment
<1>3. minted' \in [Pieces -> Moment]
  BY <1>2 DEF KeepTyped, expire_items, Moment
<1>4. truth' \in Truths
  <2>1. [p \in Pieces |-> IF p \in Lasting /\ truth.born[p] = Unset THEN clock
                          ELSE truth.born[p]] \in [Pieces -> Moment]
    BY DEF KeepTyped, Truths, Moment
  <2>2. truth' = [truth EXCEPT !.born =
                    [p \in Pieces |-> IF p \in Lasting /\ truth.born[p] = Unset THEN clock
                                      ELSE truth.born[p]]]
    BY DEF expire_items
  <2> QED BY <2>1, <2>2 DEF KeepTyped, Truths
<1> QED BY <1>1, <1>3, <1>4 DEF SessionTyped, expire_items, KeepTyped

(* The records of a tick. *)
DetailsAt(layout, details) == [i \in DOMAIN layout |-> details[layout[i]]]
Written(layout, details, recipes, been) ==
  [items |-> layout,
   progress |-> [details |-> DetailsAt(layout, details), recipes |-> recipes, truth |-> been]]

LEMMA WrittenIsTyped ==
  ASSUME NEW layout \in Layouts, NEW details \in [Pieces -> Detail],
         NEW recipes \in SUBSET Teaches, NEW been \in Truths
  PROVE  Written(layout, details, recipes, been) \in Records
<1>1. PICK some \in SUBSET Slots : layout \in [some -> Pieces]
  BY DEF Layouts
<1>2. DetailsAt(layout, details) \in [some -> Detail]
  BY <1>1 DEF DetailsAt
<1>3. DetailsAt(layout, details) \in UNION {[few -> Detail] : few \in SUBSET Slots}
  BY <1>2
<1> QED BY <1>3 DEF Written, Records, Progress

LEMMA TickWrites ==
  ASSUME KeepTyped, KeepTick
  PROVE  LET layout == stored_layout(rack', parked)
             new    == Written(layout, details_of', learned', truth')
         IN  /\ SessionTyped'
             /\ (phase = "playing" /\ restore_items) \/ (phase = "restored" /\ expire_items)
             /\ details_of' \in [Pieces -> Detail]
             /\ layout \in Layouts /\ new \in Records
             /\ record(new)
<1>1. (phase = "playing" /\ restore_items) \/ (phase = "restored" /\ expire_items)
  BY DEF KeepTick, KeepTyped
<1>2. SessionTyped'
  BY <1>1, RestoreIsTyped, ExpireIsTyped
<1>3. details_of' \in [Pieces -> Detail]
  <2>1. \A p \in Pieces : teaches(p)' \in Teaches
    BY <1>2 DEF SessionTyped, teaches, Teaches
  <2> QED BY <1>2, <2>1 DEF SessionTyped, details_of, Detail
<1>4. stored_layout(rack', parked) \in Layouts
  BY <1>2, LayoutIsOfTheCarried DEF SessionTyped, KeepTyped
<1>5. Written(stored_layout(rack', parked), details_of', learned', truth') \in Records
  BY <1>2, <1>3, <1>4, WrittenIsTyped DEF SessionTyped
<1>6. record(Written(stored_layout(rack', parked), details_of', learned', truth'))
  BY DEF KeepTick, Written, DetailsAt
<1> QED BY <1>1, <1>2, <1>3, <1>4, <1>5, <1>6

LEMMA EntriesAre ==
  /\ \A layout \in Layouts, paired \in BOOLEAN : Entry("items", layout, paired) \in Entries
  /\ \A p \in Progress, paired \in BOOLEAN : Entry("progress", p, paired) \in Entries
BY DEF Entries

LEMMA OneOrTwo ==
  ASSUME NEW S, NEW a \in S, NEW b \in S
  PROVE  /\ (<<>> \o <<a>>) \o <<>> = <<a>> /\ (<<>> \o <<>>) \o <<a>> = <<a>>
         /\ (<<>> \o <<a>>) \o <<b>> = <<a, b>>
         /\ <<>> \in Seq(S) /\ <<a>> \in Seq(S) /\ <<a, b>> \in Seq(S)
<1>1. <<>> \in Seq(S) /\ <<a>> \in Seq(S) /\ <<b>> \in Seq(S) /\ <<a, b>> \in Seq(S)
  OBVIOUS
<1>2. <<>> \o <<>> = <<>> /\ <<>> \o <<a>> = <<a>> /\ <<a>> \o <<>> = <<a>>
  BY <1>1, ConcatEmptySeq
<1>3. <<a>> \o <<b>> = <<a, b>>
  <2> DEFINE one == <<a>>  two == <<b>>  both == <<a, b>>
  <2>1. Len(one) = 1 /\ Len(two) = 1 /\ Len(both) = 2
        /\ one[1] = a /\ two[1] = b /\ both[1] = a /\ both[2] = b
    OBVIOUS
  <2>2. one \in Seq(S) /\ two \in Seq(S) /\ both \in Seq(S)
    BY <1>1
  <2> HIDE DEF one, two, both
  <2>3. one \o two \in Seq(S) /\ Len(one \o two) = 2
        /\ (one \o two)[1] = a /\ (one \o two)[2] = b
    BY <2>1, <2>2, ConcatProperties
  <2>4. one \o two = both
    BY <2>1, <2>2, <2>3, SeqEqual
  <2> QED BY <2>4 DEF one, two, both
<1> QED BY <1>1, <1>2, <1>3

(* Records are sent as entries: one, the other, or both.                   *)
LEMMA RecordSends ==
  ASSUME KeepTyped, pipeline = <<>>, NEW new \in Records, record(new)
  PROVE  /\ shelf' = new /\ pipeline' \in Seq(Entries)
         /\ \/ pipeline' = <<>> /\ new = shelf
            \/ /\ pipeline' = <<Entry("items", new.items, FALSE)>>
               /\ new.progress = shelf.progress
            \/ /\ pipeline' = <<Entry("progress", new.progress, FALSE)>>
               /\ new.items = shelf.items
            \/ pipeline' = <<Entry("items", new.items, FALSE),
                             Entry("progress", new.progress, TRUE)>>
<1> DEFINE first  == Entry("items", new.items, FALSE)
           second(paired) == Entry("progress", new.progress, paired)
<1>1. first \in Entries /\ second(FALSE) \in Entries /\ second(TRUE) \in Entries
  BY EntriesAre DEF Records
<1>2. new.items = shelf.items /\ new.progress = shelf.progress => new = shelf
  BY DEF KeepTyped, Records
<1>3. shelf' = new
      /\ pipeline' = (<<>> \o (IF new.items # shelf.items THEN <<first>> ELSE <<>>))
                     \o (IF new.progress # shelf.progress
                         THEN <<second(new.items # shelf.items)>> ELSE <<>>)
  BY DEF record
<1>4. (new.items # shelf.items) \in BOOLEAN
  OBVIOUS
<1> HIDE DEF first, second
<1>5. CASE new.items = shelf.items /\ new.progress = shelf.progress
  <2>1. pipeline' = (<<>> \o <<>>) \o <<>>
    BY <1>3, <1>5
  <2>2. pipeline' = <<>>
    BY <2>1
  <2> QED BY <1>2, <1>3, <1>5, <2>2
<1>6. CASE new.items # shelf.items /\ new.progress = shelf.progress
  <2>1. pipeline' = (<<>> \o <<first>>) \o <<>>
    BY <1>3, <1>6
  <2>2. pipeline' = <<first>> /\ pipeline' \in Seq(Entries)
    BY <1>1, <2>1, OneOrTwo
  <2>3. pipeline' = <<Entry("items", new.items, FALSE)>>
    BY <2>2 DEF first
  <2> QED BY <1>3, <1>6, <2>2, <2>3
<1>7. CASE new.items = shelf.items /\ new.progress # shelf.progress
  <2>0. (new.items # shelf.items) = FALSE
    BY <1>7
  <2>1. pipeline' = (<<>> \o <<>>) \o <<second(FALSE)>>
    BY <1>3, <1>7, <2>0
  <2>2. pipeline' = <<second(FALSE)>> /\ pipeline' \in Seq(Entries)
    BY <1>1, <2>1, OneOrTwo
  <2>3. pipeline' = <<Entry("progress", new.progress, FALSE)>>
    BY <2>2 DEF second
  <2> QED BY <1>3, <1>7, <2>2, <2>3
<1>8. CASE new.items # shelf.items /\ new.progress # shelf.progress
  <2>0. (new.items # shelf.items) = TRUE
    BY <1>8
  <2>1. pipeline' = (<<>> \o <<first>>) \o <<second(TRUE)>>
    BY <1>3, <1>8, <2>0
  <2>2. pipeline' = <<first, second(TRUE)>> /\ pipeline' \in Seq(Entries)
    BY <1>1, <2>1, OneOrTwo
  <2>3. pipeline' = <<Entry("items", new.items, FALSE),
                      Entry("progress", new.progress, TRUE)>>
    BY <2>2 DEF first, second
  <2> QED BY <1>3, <1>8, <2>2, <2>3
<1> QED BY <1>5, <1>6, <1>7, <1>8

LEMMA TickIsTyped ==
  ASSUME KeepTyped, KeepTick
  PROVE  KeepTyped'
<1> DEFINE new == Written(stored_layout(rack', parked), details_of', learned', truth')
<1>1. SessionTyped' /\ new \in Records /\ record(new)
  BY TickWrites
<1> HIDE DEF new
<1>2. shelf' \in Records /\ pipeline' \in Seq(Entries)
  BY <1>1, RecordSends DEF KeepTick
<1>3. UNCHANGED <<parked, clock, archive, refused, torn>>
  BY DEF KeepTick
<1> QED BY <1>1, <1>2, <1>3 DEF KeepTyped, SessionTyped

LEMMA GoneIsTyped ==
  ASSUME KeepTyped, NEW kept \in Records, GoneWith(kept)
  PROVE  /\ rack' \in [Slots -> Pieces \cup {Nobody}] /\ parked' = Nobody
         /\ wear' \in [Pieces -> Moment] /\ minted' \in [Pieces -> Moment]
         /\ taught' \in [Pieces -> Teaches] /\ by_id' \in [Teachers -> Lore]
         /\ learned' \in SUBSET Teaches /\ truth' \in Truths
         /\ truth' = kept.progress.truth /\ clock' = clock /\ phase' = "away"
BY AllUnsetIsTyped, UnreadIsTyped DEF GoneWith, Records, Progress

LEMMA LeaveIsTyped ==
  ASSUME KeepTyped, KeepLeave \/ KeepCrash
  PROVE  KeepTyped'
<1>1. CASE KeepLeave
  <2>1. GoneWith(shelf) /\ shelf \in Records
    BY <1>1 DEF KeepLeave, KeepTyped
  <2> QED BY <1>1, <2>1, GoneIsTyped DEF KeepLeave, KeepTyped, store
<1>2. CASE KeepCrash
  <2>1. GoneWith(archive) /\ archive \in Records
    BY <1>2 DEF KeepCrash, KeepTyped
  <2>2. torn' \in BOOLEAN /\ refused' = {}
    BY <1>2 DEF KeepCrash, KeepTyped, Entries, Entry
  <2> QED BY <1>2, <2>1, <2>2, GoneIsTyped DEF KeepCrash, KeepTyped
<1> QED BY <1>1, <1>2

LEMMA EntryIsTyped ==
  ASSUME NEW entry \in Entries, NEW kept \in Records
  PROVE  /\ entry.paired \in BOOLEAN
         /\ entry.field \in {"items", "progress"}
         /\ [kept EXCEPT ![entry.field] = entry.value] \in Records
BY DEF Entries, Entry, Records

LEMMA WriteIsTyped ==
  ASSUME KeepTyped, KeepWrite
  PROVE  KeepTyped'
<1>1. Head(pipeline) \in Entries /\ Tail(pipeline) \in Seq(Entries)
  BY DEF KeepTyped, KeepWrite
<1>2. /\ Head(pipeline).field \in {"items", "progress"}
      /\ [archive EXCEPT ![Head(pipeline).field] = Head(pipeline).value] \in Records
  BY <1>1, EntryIsTyped DEF KeepTyped
<1>3. refused' \in SUBSET {"items", "progress"}
  BY <1>2 DEF KeepTyped, KeepWrite
<1>4. archive' \in Records
  BY <1>2 DEF KeepTyped, KeepWrite
<1> QED BY <1>1, <1>3, <1>4 DEF KeepTyped, KeepWrite, maps

LEMMA KeepStepIsTyped == KeepTyped /\ [KeepNext]_keep_vars => KeepTyped'
<1> SUFFICES ASSUME KeepTyped, [KeepNext]_keep_vars PROVE KeepTyped'
  OBVIOUS
<1>1. CASE UNCHANGED keep_vars
  BY <1>1 DEF KeepTyped, keep_vars
<1> QED BY <1>1, CarryIsTyped, UseIsTyped, TickIsTyped, LeaveIsTyped, WriteIsTyped DEF KeepNext

LEMMA KeepInitIsTyped == KeepInit => KeepTyped
<1> SUFFICES ASSUME KeepInit PROVE KeepTyped
  OBVIOUS
<1>1. /\ rack \in [Slots -> Pieces \cup {Nobody}] /\ parked \in Pieces \cup {Nobody}
      /\ learned \in SUBSET Teaches /\ phase \in {"away", "playing", "restored"}
      /\ clock \in Nat /\ torn \in BOOLEAN /\ refused = {}
  <2>1. [i \in Slots |-> Nobody] \in [Slots -> Pieces \cup {Nobody}]
    OBVIOUS
  <2>2. rack \in [Slots -> Pieces \cup {Nobody}]
    BY <2>1, Zenon DEF KeepInit
  <2> QED BY <2>2 DEF KeepInit
<1>4. pipeline \in Seq(Entries)
  BY DEF KeepInit
<1>2. /\ wear \in [Pieces -> Moment] /\ minted \in [Pieces -> Moment]
      /\ taught \in [Pieces -> Teaches] /\ by_id \in [Teachers -> Lore]
  BY AllUnsetIsTyped, UnreadIsTyped DEF KeepInit
<1>3. shelf \in Records /\ archive \in Records /\ truth \in Truths
  BY NothingKeptIsTyped DEF KeepInit
<1> QED BY <1>1, <1>2, <1>3, <1>4 DEF KeepTyped

(* Everything has its type, the two records and the entries on their way   *)
(* to the database among it.                                               *)
THEOREM KeepsakesAreTyped == KeepSpec => []KeepTyped
BY KeepInitIsTyped, KeepStepIsTyped, PTL DEF KeepSpec

-----------------------------------------------------------------------------
(* What the player does. *)

LEMMA DetailsOfAStack ==
  ASSUME NEW p \in Pieces
  PROVE  /\ details_of[p].left = wear[p] /\ details_of[p].born = minted[p]
         /\ details_of[p].lore = teaches(p)
BY DEF details_of

LEMMA CarriedArePieces ==
  ASSUME NEW r \in [Slots -> Pieces \cup {Nobody}], NEW spare \in Pieces \cup {Nobody}
  PROVE  Carried(r, spare) \subseteq Pieces
BY DEF Carried

(* A step that only moves or spends stacks changes nothing about them.     *)
LEMMA MovingKeepsDetails ==
  ASSUME KeepTyped, Live, OneOfEach(rack', parked'),
         Carried(rack', parked') \subseteq Carried(rack, parked),
         UNCHANGED <<maps, truth>>
  PROVE  Live'
<1>1. details_of' = details_of
  BY DEF details_of, teaches, maps
<1> QED BY <1>1 DEF Live, TrueTo, maps

LEMMA MoveKeepsLive ==
  ASSUME KeepTyped, Live, NEW i \in Slots, NEW j \in Slots, MoveStack(i, j)
  PROVE  Live'
<1>1. rack' = [k \in Slots |-> IF k = i THEN rack[j] ELSE IF k = j THEN rack[i] ELSE rack[k]]
      /\ parked' = parked
  BY DEF MoveStack, KeepTyped
<1>2. OneOfEach(rack', parked')
  BY <1>1 DEF Live, TrueTo, OneOfEach
<1>3. Carried(rack', parked') \subseteq Carried(rack, parked)
  BY <1>1 DEF Carried
<1> QED BY <1>2, <1>3, MovingKeepsDetails DEF MoveStack

LEMMA ParkKeepsLive ==
  ASSUME KeepTyped, Live, NEW i \in Slots, Park(i)
  PROVE  Live'
<1>1. rack' = [k \in Slots |-> IF k = i THEN Nobody ELSE rack[k]]
      /\ parked' = rack[i] /\ rack[i] # Nobody
  BY DEF Park, KeepTyped
<1>2. OneOfEach(rack', parked')
  BY <1>1 DEF Live, TrueTo, OneOfEach
<1>3. Carried(rack', parked') \subseteq Carried(rack, parked)
  BY <1>1 DEF Carried
<1> QED BY <1>2, <1>3, MovingKeepsDetails DEF Park

LEMMA UnparkKeepsLive ==
  ASSUME KeepTyped, Live, Unpark
  PROVE  Live'
<1>1. PICK i \in FreeSlots : rack' = [rack EXCEPT ![i] = parked]
  <2>1. FreeSlots \subseteq Nat /\ FreeSlots # {} /\ rack' = [rack EXCEPT ![Min(FreeSlots)] = parked]
    BY DEF Unpark, FreeSlots, Slots
  <2>2. Min(FreeSlots) \in FreeSlots
    BY <2>1, LeastIsMember
  <2> QED BY <2>1, <2>2
<1>2. /\ i \in Slots /\ rack[i] = Nobody /\ parked # Nobody /\ parked' = Nobody
      /\ rack' = [k \in Slots |-> IF k = i THEN parked ELSE rack[k]]
  BY <1>1 DEF FreeSlots, KeepTyped, Unpark
<1>3. OneOfEach(rack', parked')
  BY <1>2 DEF Live, TrueTo, OneOfEach
<1>4. Carried(rack', parked') \subseteq Carried(rack, parked)
  BY <1>2 DEF Carried
<1> QED BY <1>3, <1>4, MovingKeepsDetails DEF Unpark

LEMMA LearnKeepsLive ==
  ASSUME KeepTyped, Live,
         \/ \E p \in Scrolls : learn_recipe(p)
         \/ \E p \in Deeds : learn_home_title(p)
  PROVE  Live'
<1>1. PICK p : rack' = Spent(p) /\ UNCHANGED <<parked, maps, truth>>
  BY DEF learn_recipe, learn_home_title
<1>2. \A i \in Slots : rack'[i] = rack[i] \/ rack'[i] = Nobody
  BY <1>1 DEF Spent
<1>3. OneOfEach(rack', parked')
  BY <1>1, <1>2 DEF Live, TrueTo, OneOfEach
<1>4. Carried(rack', parked') \subseteq Carried(rack, parked)
  BY <1>1, <1>2 DEF Carried
<1> QED BY <1>1, <1>3, <1>4, MovingKeepsDetails

LEMMA ObtainKeepsLive ==
  ASSUME KeepTyped, Live, NEW p \in Pieces, NEW lore \in Lore, Obtain(p, lore)
  PROVE  Live'
<1>0. FreeSlots # {} /\ rack' = [rack EXCEPT ![Min(FreeSlots)] = p]
  BY Zenon DEF Obtain
<1>1. PICK i \in FreeSlots : rack' = [rack EXCEPT ![i] = p]
  BY <1>0, LeastIsMember DEF FreeSlots, Slots
<1>2. /\ i \in Slots /\ rack[i] = Nobody /\ parked' = parked
      /\ rack' = [k \in Slots |-> IF k = i THEN p ELSE rack[k]]
  BY <1>1 DEF FreeSlots, KeepTyped, Obtain
<1>3. p \notin Carried(rack, parked) /\ p # Nobody /\ p \notin truth.given
  BY KeepsakesAssumption DEF Live, TrueTo, Obtain
<1>4. OneOfEach(rack', parked')
  BY <1>2, <1>3 DEF Live, TrueTo, OneOfEach, Carried
<1>5. Carried(rack', parked') \subseteq Carried(rack, parked) \cup {p}
  BY <1>2 DEF Carried
<1>6. /\ truth'.given = truth.given \cup {p}
      /\ truth'.left = truth.left /\ truth'.born = truth.born
      /\ \A q \in Pieces : q # p => truth'.lore[q] = truth.lore[q]
      /\ p \in Teachers => truth'.lore[p] = lore /\ by_id'[p] = lore
      /\ \A q \in Teachers : q # p => by_id'[q] = by_id[q]
  <2>1. CASE p \in Teachers
    <3>1. /\ by_id' = [by_id EXCEPT ![p] = lore]
          /\ truth' = [truth EXCEPT !.given = truth.given \cup {p},
                                    !.lore = [truth.lore EXCEPT ![p] = lore]]
      BY <2>1 DEF Obtain
    <3>2. truth \in Truths /\ by_id \in [Teachers -> Lore]
      BY DEF KeepTyped
    <3> QED BY <2>1, <3>1, <3>2 DEF Truths
  <2>2. CASE p \notin Teachers
    <3>1. by_id' = by_id /\ truth' = [truth EXCEPT !.given = truth.given \cup {p}]
      BY <2>2 DEF Obtain
    <3>2. truth \in Truths
      BY DEF KeepTyped
    <3> QED BY <2>2, <3>1, <3>2 DEF Truths
  <2> QED BY <2>1, <2>2
<1>7. UNCHANGED <<wear, minted, taught>>
  BY DEF Obtain
<1>8. \A q \in Pieces \ {p} : details_of'[q] = details_of[q]
  BY <1>6, <1>7 DEF details_of, teaches
<1>9. \A q \in Carried(rack, parked) : Follows(details_of'[q], q, truth')
  <2> SUFFICES ASSUME NEW q \in Carried(rack, parked)
               PROVE  Follows(details_of'[q], q, truth')
    OBVIOUS
  <2>1. q \in Pieces /\ q # p /\ Follows(details_of[q], q, truth)
    BY <1>3, CarriedArePieces DEF Live, TrueTo, KeepTyped
  <2>2. details_of'[q] = details_of[q] /\ truth'.lore[q] = truth.lore[q]
    BY <1>6, <1>8, <2>1
  <2> QED BY <1>6, <2>1, <2>2 DEF Follows
<1>10. Follows(details_of'[p], p, truth')
  <2>1. wear[p] = Unset /\ minted[p] = Unset /\ taught[p] = Unset
        /\ truth.left[p] = Unset /\ truth.born[p] = Unset
    BY <1>3 DEF Live, TrueTo, Sound
  <2>2. p \in Teachers => teaches(p)' = lore
    BY <1>6, <1>7, <2>1 DEF teaches
  <2>3. details_of'[p] = [left |-> wear'[p], born |-> minted'[p], lore |-> teaches(p)']
    BY DEF details_of
  <2> QED BY <1>6, <1>7, <2>1, <2>2, <2>3 DEF Follows
<1>11. Sound(truth')
  <2>1. Sound(truth) /\ truth.given \subseteq Pieces
    BY DEF Live, TrueTo, KeepTyped, Truths
  <2>2. \A q \in truth'.given \cap Teachers : truth'.lore[q] \in Lore
    BY <1>6, <2>1 DEF Sound, Pieces, Teachers
  <2> QED BY <1>6, <2>1, <2>2 DEF Sound
<1>12. TrueTo(rack', parked', details_of', truth')
  BY <1>4, <1>5, <1>6, <1>9, <1>10, <1>11 DEF TrueTo, Live
<1> QED BY <1>6, <1>7, <1>12 DEF Live

(* A tool wears, or is mended: what is left of it is what the history says. *)
LEMMA WearKeepsLive ==
  ASSUME KeepTyped, Live, NEW p \in Carried(rack, parked), NEW left,
         wear' = [wear EXCEPT ![p] = left], truth' = [truth EXCEPT !.left[p] = left],
         UNCHANGED <<rack, parked, minted, taught, by_id>>
  PROVE  Live'
<1>1. p \in Pieces /\ p \in truth.given
  BY CarriedArePieces DEF KeepTyped, Live, TrueTo
<1>2. /\ truth'.given = truth.given /\ truth'.born = truth.born /\ truth'.lore = truth.lore
      /\ truth'.left[p] = left /\ \A q \in Pieces \ {p} : truth'.left[q] = truth.left[q]
  BY <1>1 DEF KeepTyped, Truths
<1>3. wear'[p] = left /\ \A q \in Pieces \ {p} : wear'[q] = wear[q]
  BY <1>1 DEF KeepTyped
<1>4. \A q \in Pieces :
        details_of'[q] = [left |-> wear'[q], born |-> minted[q], lore |-> teaches(q)]
  BY DEF details_of, teaches
<1>5. \A q \in Carried(rack, parked) : Follows(details_of'[q], q, truth')
  <2> SUFFICES ASSUME NEW q \in Carried(rack, parked)
               PROVE  Follows(details_of'[q], q, truth')
    OBVIOUS
  <2>1. q \in Pieces /\ Follows(details_of[q], q, truth)
    BY CarriedArePieces DEF KeepTyped, Live, TrueTo
  <2>2. /\ details_of[q].left = wear[q] /\ details_of[q].born = minted[q]
        /\ details_of[q].lore = teaches(q)
    BY <2>1, DetailsOfAStack
  <2>3. /\ details_of'[q].left = wear'[q] /\ details_of'[q].born = details_of[q].born
        /\ details_of'[q].lore = details_of[q].lore
    <3>1. details_of'[q] = [left |-> wear'[q], born |-> minted[q], lore |-> teaches(q)]
      BY <1>4, <2>1
    <3> HIDE DEF details_of, teaches
    <3> QED BY <3>1, <2>2
  <2>4. wear'[q] = truth'.left[q] \/ (wear'[q] = wear[q] /\ truth'.left[q] = truth.left[q])
    BY <1>2, <1>3, <2>1
  <2> QED BY <1>2, <2>1, <2>2, <2>3, <2>4 DEF Follows
<1>6. Sound(truth')
  BY <1>1, <1>2 DEF Live, TrueTo, Sound
<1>7. TrueTo(rack', parked', details_of', truth')
  BY <1>2, <1>5, <1>6 DEF Live, TrueTo
<1> QED BY <1>1, <1>2, <1>3, <1>7 DEF Live

LEMMA UseKeepsLive ==
  ASSUME KeepTyped, Live, (\E p \in Durables : wear_held(p)) \/ Mend
  PROVE  Live'
<1>1. ASSUME NEW p \in Durables, wear_held(p)
      PROVE  Live'
  <2>1. p \in Carried(rack, parked)
    BY <1>1 DEF wear_held, Inventory, Carried
  <2> QED BY <1>1, <2>1, WearKeepsLive DEF wear_held
<1>2. CASE Mend
  <2>1. parked \in Carried(rack, parked)
    BY <1>2, KeepsakesAssumption DEF Mend, Carried, Pieces
  <2> QED BY <1>2, <2>1, WearKeepsLive DEF Mend
<1> QED BY <1>1, <1>2

-----------------------------------------------------------------------------
(* The tick. *)

(* What comes back under its square is what was written down there.        *)
LEMMA RestoreKeepsLive ==
  ASSUME KeepTyped, parked = Nobody, truth = shelf.progress.truth, Whole(shelf), restore_items,
         parked' = parked
  PROVE  Live'
<1> DEFINE items   == shelf.items
           details == shelf.progress.details
<1>1. PICK some \in SUBSET Slots : items \in [some -> Pieces]
  BY DEF KeepTyped, Records, Layouts
<1>2. /\ DOMAIN details = DOMAIN items /\ Sound(truth)
      /\ \A i, j \in DOMAIN items : items[i] = items[j] => i = j
      /\ \A i \in DOMAIN items : items[i] \in truth.given /\ Follows(details[i], items[i], truth)
  BY DEF Whole
<1>3. /\ rack' = [i \in Slots |-> IF i \in DOMAIN items THEN items[i] ELSE Nobody]
      /\ wear' = FromDetails(items, details, "left", AllUnset)
      /\ minted' = FromDetails(items, details, "born", AllUnset)
      /\ taught' = FromDetails(items, details, "lore", AllUnset)
      /\ truth' = truth
  BY DEF restore_items, RestoredStamps
<1> HIDE DEF items, details
<1>4. \A i \in DOMAIN items : items[i] \in Pieces /\ items[i] # Nobody /\ i \in Slots
  BY <1>1, KeepsakesAssumption
<1>5. OneOfEach(rack', parked')
  BY <1>2, <1>3, <1>4 DEF OneOfEach
<1>6. \A p \in Carried(rack', parked') : \E i \in DOMAIN items : p = items[i]
  BY <1>3 DEF Carried
<1>7. ASSUME NEW i \in DOMAIN items
      PROVE  /\ wear'[items[i]] = details[i].left /\ minted'[items[i]] = details[i].born
             /\ taught'[items[i]] = details[i].lore
  BY <1>2, <1>3, <1>4, FromDetailsFollows
<1>8. ASSUME NEW i \in DOMAIN items, NEW q \in Pieces, q = items[i]
      PROVE  Follows(details_of'[q], q, truth')
  <2>1. q \in truth.given /\ Follows(details[i], q, truth)
    BY <1>2, <1>8
  <2>2. wear'[q] = details[i].left /\ minted'[q] = details[i].born /\ taught'[q] = details[i].lore
    BY <1>7, <1>8
  <2>3. details_of'[q] = [left |-> wear'[q], born |-> minted'[q], lore |-> teaches(q)']
    BY DEF details_of
  <2>4. q \in Teachers => teaches(q)' = details[i].lore
    <3>1. SUFFICES ASSUME q \in Teachers PROVE teaches(q)' = details[i].lore
      OBVIOUS
    <3>2. details[i].lore \in Lore
      BY <1>2, <2>1, <3>1 DEF Follows, Sound
    <3>3. taught'[q] # Unset
      BY <2>2, <3>2, KeepsakesAssumption
    <3> QED BY <2>2, <3>1, <3>3 DEF teaches
  <2> HIDE DEF details_of, teaches
  <2> QED BY <1>3, <2>1, <2>2, <2>3, <2>4 DEF Follows
<1>9. TrueTo(rack', parked', details_of', truth')
  BY <1>2, <1>3, <1>4, <1>5, <1>6, <1>8 DEF TrueTo
<1>10. ASSUME NEW p \in Pieces, p \notin truth.given
       PROVE  wear'[p] = Unset /\ minted'[p] = Unset /\ taught'[p] = Unset
  <2>1. \A i \in DOMAIN items : items[i] # p
    BY <1>2, <1>10
  <2> QED BY <1>2, <1>3, <2>1, FromDetailsFollows DEF AllUnset
<1> QED BY <1>3, <1>9, <1>10 DEF Live

(* A stone in the rucksack begins to expire, in the history too; one on    *)
(* the repair square is left alone.                                        *)
LEMMA ExpireKeepsLive ==
  ASSUME KeepTyped, Live, expire_items, parked' = parked
  PROVE  Live'
<1>1. \A i \in Slots : rack'[i] = rack[i] \/ rack'[i] = Nobody
  BY DEF expire_items
<1>2. \A i \in Slots : rack'[i] = rack[i] => rack[i] \notin Expired \/ rack[i] = Nobody
  BY DEF expire_items
<1>3. OneOfEach(rack', parked')
  BY <1>1 DEF Live, TrueTo, OneOfEach
<1>4. Carried(rack', parked') \subseteq Carried(rack, parked)
  BY <1>1 DEF Carried
<1>5. Lasting \subseteq Inventory /\ Inventory \subseteq Carried(rack, parked)
      /\ Expired \subseteq Lasting
  BY DEF Lasting, Inventory, Carried, Expired
<1>6. \A p \in Carried(rack', parked') : p \notin Expired
  <2>1. parked # Nobody => parked \notin Expired
    BY <1>5 DEF Live, TrueTo, OneOfEach, Inventory
  <2> QED BY <1>1, <1>2, <2>1 DEF Carried
<1>7. /\ truth'.given = truth.given /\ truth'.left = truth.left /\ truth'.lore = truth.lore
      /\ truth'.born = [p \in Pieces |-> IF p \in Lasting /\ truth.born[p] = Unset
                                         THEN clock ELSE truth.born[p]]
  BY DEF expire_items, KeepTyped, Truths
<1>8. minted' = [p \in Pieces |-> IF p \in Expired THEN Unset
                                  ELSE IF p \in Lasting THEN Began(p) ELSE minted[p]]
      /\ UNCHANGED <<wear, taught, by_id>>
  BY DEF expire_items
<1>9. ASSUME NEW p \in Carried(rack', parked')
      PROVE  Follows(details_of'[p], p, truth')
  <2>1. p \in Carried(rack, parked) /\ p \in Pieces /\ p \notin Expired
    BY <1>4, <1>6, CarriedArePieces DEF KeepTyped
  <2>2. Follows(details_of[p], p, truth)
    BY <2>1 DEF Live, TrueTo
  <2>3. /\ details_of[p].left = wear[p] /\ details_of[p].born = minted[p]
        /\ details_of[p].lore = teaches(p)
    BY <2>1, DetailsOfAStack
  <2>4. details_of'[p] = [left |-> wear[p], born |-> minted'[p], lore |-> teaches(p)]
    BY <1>8, <2>1 DEF details_of, teaches
  <2>5. p \in Stones => minted'[p] = truth'.born[p]
    <3>1. SUFFICES ASSUME p \in Stones PROVE minted'[p] = truth'.born[p]
      OBVIOUS
    <3>2. minted[p] = truth.born[p]
      BY <2>2, <2>3, <3>1 DEF Follows
    <3>3. minted'[p] = IF p \in Lasting THEN Began(p) ELSE minted[p]
      BY <1>8, <2>1
    <3>4. truth'.born[p] = IF p \in Lasting /\ truth.born[p] = Unset THEN clock
                           ELSE truth.born[p]
      BY <1>7, <2>1
    <3> QED BY <3>2, <3>3, <3>4 DEF Began
  <2> HIDE DEF details_of, teaches
  <2> QED BY <1>7, <2>2, <2>3, <2>4, <2>5 DEF Follows
<1>10. \A p \in Pieces \ truth.given : p \notin Lasting
  BY <1>5 DEF Live, TrueTo
<1>11. Sound(truth')
  BY <1>7, <1>10 DEF Live, TrueTo, Sound
<1>12. TrueTo(rack', parked', details_of', truth')
  BY <1>3, <1>4, <1>7, <1>9, <1>11 DEF TrueTo, Live
<1>13. \A p \in Pieces \ truth'.given :
         wear'[p] = Unset /\ minted'[p] = Unset /\ taught'[p] = Unset
  BY <1>5, <1>7, <1>8, <1>10 DEF Live
<1> QED BY <1>12, <1>13 DEF Live

(* What is true of the session is true of what a tick writes down of it.   *)
LEMMA WhatIsWrittenIsWhole ==
  ASSUME NEW r \in [Slots -> Pieces \cup {Nobody}], NEW spare \in Pieces \cup {Nobody},
         NEW details, NEW recipes, NEW been, TrueTo(r, spare, details, been)
  PROVE  Whole(Written(stored_layout(r, spare), details, recipes, been))
<1> DEFINE layout == stored_layout(r, spare)
<1>1. /\ \A i \in DOMAIN layout : layout[i] \in Carried(r, spare)
      /\ \A i, j \in DOMAIN layout : layout[i] = layout[j] => i = j
  BY LayoutIsOfTheCarried DEF TrueTo
<1>2. \A i \in DOMAIN layout :
        layout[i] \in been.given /\ Follows(details[layout[i]], layout[i], been)
  BY <1>1 DEF TrueTo
<1> HIDE DEF layout
<1>3. /\ DOMAIN DetailsAt(layout, details) = DOMAIN layout
      /\ \A i \in DOMAIN layout : DetailsAt(layout, details)[i] = details[layout[i]]
  BY DEF DetailsAt
<1>4. Whole(Written(layout, details, recipes, been))
  BY <1>1, <1>2, <1>3 DEF Whole, Written, TrueTo
<1> QED BY <1>4 DEF layout

LEMMA TickKeepsInv ==
  ASSUME KeepTyped, KeepInv, KeepTick
  PROVE  KeepInv'
<1> DEFINE new == Written(stored_layout(rack', parked), details_of', learned', truth')
<1>1. /\ phase' = "restored" /\ SessionTyped' /\ new \in Records /\ record(new)
      /\ (phase = "playing" /\ restore_items) \/ (phase = "restored" /\ expire_items)
  BY TickWrites DEF SessionTyped
<1>2. UNCHANGED <<parked, archive, refused, torn>> /\ pipeline = <<>>
  BY DEF KeepTick
<1> SUFFICES ASSUME ~torn PROVE Whole(shelf)' /\ OnTheWay' /\ Live'
  BY <1>1, <1>2 DEF KeepInv
<1>3. Whole(shelf) /\ UpToDate("items") /\ UpToDate("progress")
  BY <1>2 DEF KeepInv, OnTheWay
<1>4. Live'
  <2>1. CASE phase = "playing" /\ restore_items
    BY <1>2, <1>3, <2>1, RestoreKeepsLive DEF KeepInv
  <2>2. CASE phase = "restored" /\ expire_items
    BY <1>2, <2>2, ExpireKeepsLive DEF KeepInv
  <2> QED BY <1>1, <2>1, <2>2
<1>5. Whole(new)
  <2>1. rack' \in [Slots -> Pieces \cup {Nobody}] /\ parked \in Pieces \cup {Nobody}
    BY <1>1 DEF SessionTyped, KeepTyped
  <2>2. TrueTo(rack', parked, details_of', truth')
    BY <1>2, <1>4 DEF Live
  <2> QED BY <2>1, <2>2, WhatIsWrittenIsWhole
<1> HIDE DEF new
<1>6. /\ shelf' = new
      /\ \/ pipeline' = <<>> /\ new = shelf
         \/ pipeline' = <<Entry("items", new.items, FALSE)>> /\ new.progress = shelf.progress
         \/ pipeline' = <<Entry("progress", new.progress, FALSE)>> /\ new.items = shelf.items
         \/ pipeline' = <<Entry("items", new.items, FALSE), Entry("progress", new.progress, TRUE)>>
  BY <1>1, <1>2, RecordSends
<1>7. /\ refused' = refused /\ archive' = archive
      /\ "items" \notin refused => archive.items = shelf.items
      /\ "progress" \notin refused => archive.progress = shelf.progress
      /\ refused = {} => Whole(archive)
  <2>1. refused = {} => archive = shelf
    BY <1>3 DEF UpToDate, KeepTyped, Records
  <2> QED BY <1>2, <1>3, <2>1 DEF UpToDate
<1>8. OnTheWay'
  <2>1. CASE pipeline' = <<>> /\ new = shelf
    BY <1>6, <1>7, <2>1 DEF OnTheWay, UpToDate
  <2>2. CASE pipeline' = <<Entry("items", new.items, FALSE)>> /\ new.progress = shelf.progress
    BY <1>6, <1>7, <2>2 DEF OnTheWay, IsItems, Entry, UpToDate, ArchiveIsWhole
  <2>3. CASE pipeline' = <<Entry("progress", new.progress, FALSE)>> /\ new.items = shelf.items
    BY <1>6, <1>7, <2>3 DEF OnTheWay, IsProgress, Entry, UpToDate, ArchiveIsWhole
  <2>4. CASE pipeline' = <<Entry("items", new.items, FALSE), Entry("progress", new.progress, TRUE)>>
    BY <1>6, <1>7, <2>4 DEF OnTheWay, IsItems, IsProgress, Entry, ArchiveIsWhole
  <2> QED BY <1>6, <2>1, <2>2, <2>3, <2>4
<1> QED BY <1>4, <1>5, <1>6, <1>8

-----------------------------------------------------------------------------
(* Connections, the writer and a crash. *)

LEMMA CrashKeepsInv ==
  ASSUME KeepTyped, KeepInv, KeepCrash
  PROVE  KeepInv'
<1>1. /\ phase' = "away" /\ parked' = Nobody /\ truth' = archive.progress.truth
      /\ shelf' = archive /\ archive' = archive /\ pipeline' = <<>>
      /\ torn' = (torn \/ refused # {} \/ (pipeline # <<>> /\ Head(pipeline).paired))
  BY DEF KeepCrash, GoneWith
<1>2. ASSUME ~torn'
      PROVE  Whole(archive)
  <2>1. ~torn /\ refused = {} /\ ~(pipeline # <<>> /\ Head(pipeline).paired)
    BY <1>1, <1>2, Zenon
  <2>2. Whole(shelf) /\ OnTheWay
    BY <2>1 DEF KeepInv
  <2>3. Len(pipeline) = 1 \/ Len(pipeline) = 2 => pipeline # <<>> /\ Head(pipeline) = pipeline[1]
    <3>1. pipeline \in Seq(Entries)
      BY DEF KeepTyped
    <3> QED BY <3>1
  <2>4. Len(pipeline) = 1 \/ Len(pipeline) = 2 => ~pipeline[1].paired
    BY <2>1, <2>3
  <2>5. UpToDate("items") /\ UpToDate("progress") => archive = shelf
    BY <2>1 DEF UpToDate, KeepTyped, Records
  <2> QED BY <2>1, <2>2, <2>4, <2>5 DEF OnTheWay, ArchiveIsWhole
<1> QED BY <1>1, <1>2 DEF KeepInv, OnTheWay, UpToDate

(* A write brings its record up to date, or it is one the database has     *)
(* refused; the other record stays as it was.                              *)
LEMMA WriteBringsUpToDate ==
  ASSUME KeepTyped, KeepWrite
  PROVE  /\ Head(pipeline).field \in {"items", "progress"}
         /\ Head(pipeline).field \notin refused'
              => archive'[Head(pipeline).field] = Head(pipeline).value
         /\ \A field \in {"items", "progress"} : field # Head(pipeline).field =>
              /\ archive'[field] = archive[field]
              /\ field \in refused' <=> field \in refused
<1> DEFINE f == Head(pipeline).field
           v == Head(pipeline).value
<1>1. Head(pipeline) \in Entries
  BY DEF KeepTyped, KeepWrite
<1>2. f \in {"items", "progress"}
  BY <1>1, EntryIsTyped DEF Entries, Entry
<1>3. shelf' = shelf /\ archive \in Records
  BY DEF KeepWrite, KeepTyped
<1>4. \/ /\ archive' = [archive EXCEPT ![f] = v]
         /\ refused' = refused \ {f}
      \/ refused' = refused \cup {f} /\ archive' = archive
  BY DEF KeepWrite
<1> HIDE DEF f, v
<1>5. CASE archive' = [archive EXCEPT ![f] = v] /\ refused' = refused \ {f}
  <2>1. archive'[f] = v
    BY <1>2, <1>3, <1>5 DEF Records
  <2>2. \A field \in {"items", "progress"} : field # f =>
          /\ archive'[field] = archive[field]
          /\ field \in refused' <=> field \in refused
    BY <1>2, <1>3, <1>5 DEF Records
  <2> QED BY <1>2, <1>3, <2>1, <2>2 DEF f, v
<1>6. CASE refused' = refused \cup {f} /\ archive' = archive
  BY <1>2, <1>3, <1>6 DEF f, v
<1> QED BY <1>4, <1>5, <1>6

LEMMA WriteKeepsInv ==
  ASSUME KeepTyped, KeepInv, KeepWrite
  PROVE  KeepInv'
<1>0. /\ Head(pipeline) = pipeline[1] /\ Tail(pipeline) \in Seq(Entries)
      /\ Len(Tail(pipeline)) = Len(pipeline) - 1
      /\ Len(pipeline) = 1 => Tail(pipeline) = <<>>
      /\ Len(pipeline) = 2 => Tail(pipeline)[1] = pipeline[2]
  <2>1. pipeline \in Seq(Entries) /\ pipeline # <<>>
    BY DEF KeepTyped, KeepWrite
  <2> QED BY <2>1
<1>1. /\ pipeline # <<>> /\ pipeline' = Tail(pipeline)
      /\ UNCHANGED <<rack, parked, wear, minted, taught, by_id, phase, shelf, truth, torn>>
  BY DEF KeepWrite, maps
<1>2. Live' = Live
  BY <1>1 DEF Live, TrueTo, details_of, teaches
<1>3. Whole(shelf)' = Whole(shelf)
  BY <1>1
<1>4. ASSUME ~torn
      PROVE  OnTheWay'
  <2>1. OnTheWay /\ Whole(shelf)
    BY <1>4 DEF KeepInv
  <2>2. CASE Len(pipeline) = 1 /\ IsItems(pipeline[1]) /\ UpToDate("progress")
    <3>1. pipeline' = <<>>
      BY <1>0, <1>1, <2>2
    <3>2. UpToDate("items")' /\ UpToDate("progress")'
      BY <1>0, <1>1, <2>2, WriteBringsUpToDate DEF IsItems, UpToDate
    <3> QED BY <3>1, <3>2 DEF OnTheWay
  <2>3. CASE Len(pipeline) = 1 /\ IsProgress(pipeline[1]) /\ UpToDate("items")
    <3>1. pipeline' = <<>>
      BY <1>0, <1>1, <2>3
    <3>2. UpToDate("items")' /\ UpToDate("progress")'
      BY <1>0, <1>1, <2>3, WriteBringsUpToDate DEF IsProgress, UpToDate
    <3> QED BY <3>1, <3>2 DEF OnTheWay
  <2>4. CASE /\ Len(pipeline) = 2 /\ IsItems(pipeline[1]) /\ IsProgress(pipeline[2])
             /\ pipeline[2].paired
    <3>1. Len(pipeline') = 1 /\ pipeline'[1] = pipeline[2]
      <4>1. pipeline' = Tail(pipeline) /\ Len(pipeline) = 2
        BY <1>1, <2>4
      <4> QED BY <1>0, <4>1
    <3>2. UpToDate("items")'
      BY <1>0, <1>1, <2>4, WriteBringsUpToDate DEF IsItems, UpToDate
    <3> QED BY <1>1, <2>4, <3>1, <3>2 DEF OnTheWay, IsProgress
  <2> QED BY <1>1, <2>1, <2>2, <2>3, <2>4 DEF OnTheWay
<1> QED BY <1>1, <1>2, <1>3, <1>4 DEF KeepInv

LEMMA SessionKeepsInv ==
  ASSUME KeepTyped, KeepInv, UNCHANGED <<store, torn>>,
         \/ phase = "restored" /\ phase' = "restored" /\ (Live => Live')
         \/ phase' # "restored" /\ parked' = Nobody /\ truth' = shelf.progress.truth
  PROVE  KeepInv'
<1>1. OnTheWay => OnTheWay'
  BY DEF OnTheWay, IsItems, IsProgress, UpToDate, ArchiveIsWhole, store
<1>2. Whole(shelf) => Whole(shelf)'
  BY DEF store
<1>3. shelf' = shelf /\ torn' = torn
  BY DEF store
<1> QED BY <1>1, <1>2, <1>3 DEF KeepInv

LEMMA StepKeepsInv ==
  ASSUME KeepTyped, KeepInv, [KeepNext]_keep_vars
  PROVE  KeepInv'
<1>1. ASSUME NEW p \in Pieces, NEW lore \in Lore, Obtain(p, lore)
      PROVE  KeepInv'
  <2>1. phase = "restored" /\ phase' = "restored" /\ UNCHANGED <<store, torn>>
    BY <1>1 DEF Obtain, Free, Here
  <2> QED BY <1>1, <2>1, ObtainKeepsLive, SessionKeepsInv
<1>2. ASSUME NEW i \in Slots, NEW j \in Slots, MoveStack(i, j)
      PROVE  KeepInv'
  <2>1. phase = "restored" /\ phase' = "restored" /\ UNCHANGED <<store, torn>>
    BY <1>2 DEF MoveStack, Free, Here
  <2> QED BY <1>2, <2>1, MoveKeepsLive, SessionKeepsInv
<1>3. ASSUME NEW i \in Slots, Park(i)
      PROVE  KeepInv'
  <2>1. phase = "restored" /\ phase' = "restored" /\ UNCHANGED <<store, torn>>
    BY <1>3 DEF Park, Free, Here
  <2> QED BY <1>3, <2>1, ParkKeepsLive, SessionKeepsInv
<1>4. CASE Unpark
  <2>1. phase = "restored" /\ phase' = "restored" /\ UNCHANGED <<store, torn>>
    BY <1>4 DEF Unpark, Free, Here
  <2> QED BY <1>4, <2>1, UnparkKeepsLive, SessionKeepsInv
<1>5. CASE (\E p \in Durables : wear_held(p)) \/ Mend
  <2>1. phase = "restored" /\ phase' = "restored" /\ UNCHANGED <<store, torn>>
    BY <1>5 DEF wear_held, Mend, Free, Here
  <2> QED BY <1>5, <2>1, UseKeepsLive, SessionKeepsInv
<1>6. CASE (\E p \in Scrolls : learn_recipe(p)) \/ (\E p \in Deeds : learn_home_title(p))
  <2>1. phase = "restored" /\ phase' = "restored" /\ UNCHANGED <<store, torn>>
    BY <1>6 DEF learn_recipe, learn_home_title, Free, Here
  <2> QED BY <1>6, <2>1, LearnKeepsLive, SessionKeepsInv
<1>7. CASE KeepTick
  BY <1>7, TickKeepsInv
<1>8. CASE Pass \/ UNCHANGED keep_vars
  <2>1. UNCHANGED <<rack, parked, maps, phase, truth, store, torn>>
    BY <1>8 DEF Pass, keep_vars, maps, store
  <2>2. Live => Live'
    BY <2>1 DEF Live, TrueTo, details_of, teaches, maps
  <2>3. phase # "restored" => parked = Nobody /\ truth = shelf.progress.truth
    BY DEF KeepInv
  <2> QED BY <2>1, <2>2, <2>3, SessionKeepsInv
<1>9. CASE KeepLeave
  BY <1>9, SessionKeepsInv DEF KeepLeave, GoneWith
<1>10. CASE KeepJoin
  <2>1. parked = Nobody /\ truth = shelf.progress.truth
    BY <1>10 DEF KeepJoin, KeepInv
  <2> QED BY <1>10, <2>1, SessionKeepsInv DEF KeepJoin
<1>11. CASE KeepWrite
  BY <1>11, WriteKeepsInv
<1>12. CASE KeepCrash
  BY <1>12, CrashKeepsInv
<1> QED BY <1>1, <1>2, <1>3, <1>4, <1>5, <1>6, <1>7, <1>8, <1>9, <1>10, <1>11, <1>12 DEF KeepNext

LEMMA InitHasInv == KeepInit => KeepInv
BY NothingKeptIsTyped DEF KeepInit, KeepInv, OnTheWay, UpToDate, NothingKept

(* Until a restart finds records of two ticks, the two belong together:    *)
(* every stack is under one square, and the detail under that square is    *)
(* its own.  The database may refuse any of the writes: what it holds is   *)
(* then behind by the records it refused last, and by nothing else.        *)
THEOREM RecordsBelongTogether == KeepSpec => []KeepInv
<1>1. KeepTyped /\ KeepInv /\ [KeepNext]_keep_vars => KeepInv'
  BY StepKeepsInv
<1> QED BY <1>1, InitHasInv, KeepsakesAreTyped, PTL DEF KeepSpec

(* However it was moved, parked, expired, stored or minted anew, a stack   *)
(* is as worn and as old as it was, and teaches what it taught, in every   *)
(* session and after every restart, but for one that finds records of two  *)
(* ticks: after a crash between the two, or after a refused write.         *)
THEOREM DetailsFollow == KeepSpec => []DetailsFollowTheirStack
<1>1. KeepTyped /\ KeepInv => DetailsFollowTheirStack
  <2> SUFFICES ASSUME KeepTyped, KeepInv, Here, ~torn, NEW p \in Owned
               PROVE  /\ p \in Durables => wear[p] = truth.left[p]
                      /\ p \in Stones   => minted[p] = truth.born[p]
                      /\ p \in Teachers => teaches(p) = truth.lore[p]
    BY DEF DetailsFollowTheirStack
  <2>1. Live
    BY DEF KeepInv, Here
  <2>2. p \in Carried(rack, parked) /\ p \in Pieces
    BY CarriedArePieces DEF Owned, Inventory, Carried, KeepTyped
  <2>3. Follows(details_of[p], p, truth)
    BY <2>1, <2>2 DEF Live, TrueTo
  <2> QED BY <2>2, <2>3, DetailsOfAStack DEF Follows
<1> QED BY <1>1, KeepsakesAreTyped, RecordsBelongTogether, PTL
=============================================================================
