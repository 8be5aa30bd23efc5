------------------------------ MODULE Accounts ------------------------------
(***************************************************************************)
(* How a player becomes somebody: the launcher's login (skysaga-auth), the *)
(* web API's sign-in and character select (skysaga-web), the shared state  *)
(* behind both (skysaga-state), and the game server's connections, which   *)
(* carry no account of their own (skysaga-game/src/server.rs).             *)
(*                                                                         *)
(* A connection is somebody because an account was put in a line for it:   *)
(* by the request for the server's address, and again by whatever sends    *)
(* the client to reconnect, the end of character creation or a portal.     *)
(* The line is one of names, so it is right when clients arrive in the     *)
(* order they were sent (Orderly).                                         *)
(*                                                                         *)
(* One account to a client, all behind one address.  The check of a        *)
(* proposed name, photos, and the time an old connection takes to be lost  *)
(* after the new one is there are left out.                                *)
(***************************************************************************)
EXTENDS Naturals, Sequences, SequencesExt

CONSTANTS
  Clients,           \* each signs in as the account of its own name
  CharacterNames, Biomes, Looks,
  Rifts,             \* the worlds portals lead to
  HomeWorld,
  DefaultLook, Absent,
  Fixed,             \* the credential policy: a list of accounts, or anybody
  MAX_RESERVATIONS,
  Orderly,           \* clients connect in the order they were sent, and all do
  ResetsWhilePlaying,
  MaxArrivals        \* bound: of connections made

(* What a character is known by, and a session.                            *)
Profiles ==
  [name  : CharacterNames \cup Clients \cup {Absent},
   biome : Biomes \cup {Absent},
   look  : Looks \cup {DefaultLook, Absent}]
Sessions ==
  [account : Clients \cup {Absent}, profile : Profiles, departed : BOOLEAN,
   world : Rifts \cup {HomeWorld}]

ASSUME AccountsAssumption ==
  /\ Fixed \in BOOLEAN /\ Orderly \in BOOLEAN /\ ResetsWhilePlaying \in BOOLEAN
  /\ MAX_RESERVATIONS \in Nat \ {0} /\ HomeWorld \notin Rifts
  /\ Absent \notin Clients \cup CharacterNames \cup Biomes \cup Looks \cup {DefaultLook}
  /\ Absent \notin Rifts \cup Profiles \cup Sessions

VARIABLES
  accounts,      \* who has signed in, ever
  token,         \* the account each client's token stands for
  peer,          \* the account last bound to the address
  most_recent,   \* the account that signed in last
  characters,    \* each account's character
  reservations,  \* accounts whose connections are expected
  destinations,  \* where accounts have set off for
  connection,    \* each client's session on the game server
  stage_of,            \* how far each client is
  line,          \* the clients that have been sent to the game server
  chosen,        \* what each client has made of its character
  heading,       \* and where it has been sent
  arrivals

web_vars     == <<accounts, token, peer, most_recent>>
server_vars  == <<characters, reservations, destinations, connection>>
client_vars  == <<stage_of, line, chosen, heading, arrivals>>
account_vars == <<web_vars, server_vars, client_vars>>

-----------------------------------------------------------------------------
NoProfile     == [name |-> Absent, biome |-> Absent, look |-> Absent]
NewCharacter(account, name) == [name |-> name, biome |-> Absent, look |-> DefaultLook]

(* The policy knows no account but the listed ones, which are the clients' *)
(* own, and compares the password.                                         *)
PolicyAccepts(account, password) == Fixed => password = account

(* authenticate: the account is made, and is the last that signed in.      *)
authenticate(account) ==
  /\ accounts' = accounts \cup {account}
  /\ most_recent' = account

(* The launcher's exchange with the login server: one request, one reply.  *)
LauncherLogin(c) ==
  /\ stage_of[c] = "out" /\ PolicyAccepts(c, c)
  /\ authenticate(c)
  /\ stage_of' = [stage_of EXCEPT ![c] = "launched"]
  /\ UNCHANGED <<token, peer, server_vars, line, chosen, heading, arrivals>>

(* The client's sign-in on the web API, with the launcher's token, which   *)
(* holds no password, or from its own login screen.  What is refused is    *)
(* answered with a token that stands for nobody.                           *)
sign_in(c, password) ==
  /\ stage_of[c] = "launched"
  /\ \/ /\ PolicyAccepts(c, password)
        /\ authenticate(c)
        /\ token' = [token EXCEPT ![c] = c]
        /\ peer' = c
     \/ /\ ~PolicyAccepts(c, password)
        /\ UNCHANGED web_vars
  /\ stage_of' = [stage_of EXCEPT ![c] = "signed"]
  /\ UNCHANGED <<server_vars, line, chosen, heading, arrivals>>

(* Mutant: whoever was last seen at the address. *)
CallerAtAddress(c) == peer

(* Whose request it is: the token's, or the last seen at the address, or   *)
(* the last that signed in.                                                *)
Caller(c) ==
  IF token[c] # Absent THEN token[c]
  ELSE IF peer # Absent THEN peer ELSE most_recent

(* characters/_active: the character, or a new one.                        *)
ActiveCharacter(c) ==
  LET account == Caller(c)
  IN  /\ stage_of[c] = "signed" /\ account \in accounts /\ characters[account] = Absent
      /\ characters' = [characters EXCEPT ![account] = NewCharacter(account, account)]
      /\ UNCHANGED <<web_vars, reservations, destinations, connection, client_vars>>

(* characters/_create, which replaces what there is; the client asks for   *)
(* it when it has been told that there is none.                            *)
CreateByRequest(c, name) ==
  LET account == Caller(c)
  IN  /\ stage_of[c] = "signed" /\ account \in accounts /\ characters[account] = Absent
      /\ characters' = [characters EXCEPT ![account] = NewCharacter(account, name)]
      /\ chosen' = [chosen EXCEPT ![c].name = name]
      /\ UNCHANGED <<web_vars, reservations, destinations, connection, stage_of, line, heading,
                     arrivals>>

-----------------------------------------------------------------------------
(* reserve_slot: of too many the oldest are forgotten.                     *)
Reserved(queue, account) ==
  LET longer == Append(queue, account)
  IN  IF Len(longer) > MAX_RESERVATIONS THEN Tail(longer) ELSE longer

Sent(c, w) ==
  /\ stage_of' = [stage_of EXCEPT ![c] = "waiting"]
  /\ line' = Append(line, c)
  /\ heading' = [heading EXCEPT ![c] = w]

(* game-conductor/retrieve: the address, and a place in the line.          *)
Retrieve(c) ==
  /\ stage_of[c] = "signed"
  /\ reservations' = IF Caller(c) = Absent THEN reservations
                     ELSE Reserved(reservations, Caller(c))
  /\ Sent(c, HomeWorld)
  /\ UNCHANGED <<web_vars, characters, destinations, connection, chosen, arrivals>>

(* Mutant: a destination is kept for the next time. *)
StillBound(account) == destinations

Unbound(account) == [destinations EXCEPT ![account] = Absent]

(* The character as the profile a new session starts with.                 *)
stored_profile(account) ==
  IF account = Absent \/ characters[account] = Absent THEN NoProfile ELSE characters[account]

(* The client connects, and the connection is whoever is first in line.    *)
(* A destination is used once.  A client whose character has no biome runs *)
(* its creator.                                                            *)
Arrive(c) ==
  LET claimed == IF reservations = <<>> THEN Absent ELSE Head(reservations)
      bound   == IF claimed = Absent THEN Absent ELSE destinations[claimed]
      profile == stored_profile(claimed)
  IN  /\ stage_of[c] = "waiting" /\ arrivals < MaxArrivals
      /\ reservations' = IF reservations = <<>> THEN <<>> ELSE Tail(reservations)
      /\ destinations' = IF claimed = Absent THEN destinations ELSE Unbound(claimed)
      /\ connection' = [connection EXCEPT ![c] =
           [account |-> claimed, profile |-> profile, departed |-> FALSE,
            world |-> IF bound = Absent THEN HomeWorld ELSE bound]]
      /\ \E i \in DOMAIN line :
           line[i] = c /\ (Orderly => i = 1) /\ line' = RemoveAt(line, i)
      /\ stage_of' = [stage_of EXCEPT ![c] = IF profile.biome = Absent THEN "creating" ELSE "playing"]
      /\ arrivals' = arrivals + 1
      /\ UNCHANGED <<web_vars, characters, chosen, heading>>

-----------------------------------------------------------------------------
(* Packets.  After each the server publishes the session's profile. *)
Connected(c) == connection[c] # Absent

Told(new, old) == IF new = Absent THEN old ELSE new

(* publish: a character is made when there is none, and is what the        *)
(* session has been told.                                                  *)
publish(account, profile) ==
  IF account = Absent THEN characters
  ELSE LET held == IF characters[account] = Absent THEN NewCharacter(account, account)
                   ELSE characters[account]
       IN  [characters EXCEPT ![account] =
              [name |-> Told(profile.name, held.name),
               biome |-> Told(profile.biome, held.biome),
               look |-> Told(profile.look, held.look)]]

Handled(c, session) ==
  /\ connection' = [connection EXCEPT ![c] = session]
  /\ characters' = publish(session.account, session.profile)

SaveCharacterName(c, name) ==
  /\ stage_of[c] = "creating"
  /\ Handled(c, [connection[c] EXCEPT !.profile.name = name])
  /\ chosen' = [chosen EXCEPT ![c].name = name]
  /\ UNCHANGED <<web_vars, reservations, destinations, stage_of, line, heading, arrivals>>

SetCharacterCustomisation(c, look) ==
  /\ stage_of[c] = "creating"
  /\ Handled(c, [connection[c] EXCEPT !.profile.look = look])
  /\ chosen' = [chosen EXCEPT ![c].look = look]
  /\ UNCHANGED <<web_vars, reservations, destinations, stage_of, line, heading, arrivals>>

ExpectedBack(account) ==
  IF account = Absent THEN reservations ELSE Reserved(reservations, account)

(* The end of creation.  A blank biome is not stored, and the client is    *)
(* sent to the homeworld all the same: back into its creator.              *)
CreateHomeworld(c, biome) ==
  /\ stage_of[c] = "creating"
  /\ Handled(c, [connection[c] EXCEPT !.profile.biome = Told(biome, @)])
  /\ chosen' = [chosen EXCEPT ![c].biome = Told(biome, @)]
  /\ reservations' = ExpectedBack(connection[c].account)
  /\ Sent(c, HomeWorld)
  /\ UNCHANGED <<web_vars, destinations, arrivals>>

(* A session sets off once: what follows until the client has gone changes *)
(* nothing.                                                                *)
SetsOff(c) == ~connection[c].departed

Depart(c, w) ==
  LET account == connection[c].account
  IN  /\ SetsOff(c)
      /\ Handled(c, [connection[c] EXCEPT !.departed = TRUE])
      /\ reservations' = ExpectedBack(account)
      /\ destinations' = IF account = Absent THEN destinations
                         ELSE [destinations EXCEPT ![account] =
                                 IF w = HomeWorld THEN Absent ELSE w]
      /\ IF stage_of[c] = "playing" THEN Sent(c, w) ELSE UNCHANGED <<stage_of, line, heading>>
      /\ UNCHANGED <<web_vars, chosen, arrivals>>

(* The player stands in an open portal, and may go on moving in it. *)
StepThroughPortal(c, w) ==
  /\ Connected(c) /\ (stage_of[c] = "playing" \/ (stage_of[c] = "waiting" /\ heading[c] = w))
  /\ Depart(c, w)

(* A client that has not been sent off asks to go home. *)
JoinHomeWorld(c) == stage_of[c] = "playing" /\ Depart(c, HomeWorld)

(* Any other packet. *)
SendPacket(c) ==
  /\ Connected(c)
  /\ Handled(c, connection[c])
  /\ UNCHANGED <<web_vars, reservations, destinations, client_vars>>

(* The connection is lost; a client that is on its way comes back by it.   *)
LoseConnection(c) ==
  /\ Connected(c)
  /\ connection' = [connection EXCEPT ![c] = Absent]
  /\ stage_of' = IF stage_of[c] = "waiting" THEN stage_of ELSE [stage_of EXCEPT ![c] = "out"]
  /\ UNCHANGED <<web_vars, characters, reservations, destinations, line, chosen, heading,
                 arrivals>>

(* debug/reset-character. *)
ResetCharacter(c) ==
  /\ characters[c] # Absent
  /\ ResetsWhilePlaying \/ \A d \in Clients : Connected(d) => connection[d].account # c
  /\ characters' = [characters EXCEPT ![c] = Absent]
  /\ chosen' = [chosen EXCEPT ![c] = NewCharacter(c, c)]
  /\ UNCHANGED <<web_vars, reservations, destinations, connection, stage_of, line, heading, arrivals>>

-----------------------------------------------------------------------------
AccountsInit ==
  /\ accounts = {} /\ peer = Absent /\ most_recent = Absent
  /\ token = [c \in Clients |-> Absent]
  /\ characters = [c \in Clients |-> Absent]
  /\ reservations = <<>>
  /\ destinations = [c \in Clients |-> Absent]
  /\ connection = [c \in Clients |-> Absent]
  /\ stage_of = [c \in Clients |-> "out"]
  /\ line = <<>>
  /\ chosen = [c \in Clients |-> NewCharacter(c, c)]
  /\ heading = [c \in Clients |-> HomeWorld]
  /\ arrivals = 0

AccountsNext ==
  \E c \in Clients :
    \/ LauncherLogin(c)
    \/ sign_in(c, c) \/ sign_in(c, "")
    \/ ActiveCharacter(c)
    \/ \E name \in CharacterNames : CreateByRequest(c, name) \/ SaveCharacterName(c, name)
    \/ Retrieve(c) \/ Arrive(c)
    \/ \E look \in Looks : SetCharacterCustomisation(c, look)
    \/ \E biome \in Biomes \cup {Absent} : CreateHomeworld(c, biome)
    \/ \E w \in Rifts : StepThroughPortal(c, w)
    \/ JoinHomeWorld(c)
    \/ SendPacket(c) \/ LoseConnection(c) \/ ResetCharacter(c)

AccountsSpec == AccountsInit /\ [][AccountsNext]_account_vars

-----------------------------------------------------------------------------
(* Properties. *)

(* "Recording who is about to connect is the only way the game server can  *)
(* tell two players apart": however sign-ins, creations, portals and       *)
(* departures of several clients interleave, every connection is the       *)
(* account of the client that made it, and a client that plays is the      *)
(* character it made.                                                      *)
ArriveAsThemselves ==
  \A c \in Clients :
    Connected(c) =>
      /\ connection[c].account = c
      /\ stage_of[c] = "playing" => connection[c].profile = chosen[c]

(* "Whatever this account set off for, or home": a player is in the world  *)
(* the last portal or the conductor sent the client to, and an earlier     *)
(* journey does not come back.                                             *)
ArriveWhereSent ==
  \A c \in Clients : stage_of[c] = "playing" => connection[c].world = heading[c]
=============================================================================
