------------------------------- MODULE Chat --------------------------------
(***************************************************************************)
(* The chat service (skysaga-chat): a task to a connection, which reads    *)
(* lines and answers them (dialect.rs, Session) and hands what is said to  *)
(* the other connections (server.rs), a writer to a connection, and the    *)
(* register of members they share behind one lock.  Slash commands go      *)
(* through the shared state to the game loop.                              *)
(*                                                                         *)
(* The client is external: it opens with HELLO, NICK and USER, asks the    *)
(* game connection for the channels when it has been greeted, joins them,  *)
(* and only then says anything.  A line is its verb and what the routing   *)
(* looks at; the wording of answers is left out, and so are PING, MODE and *)
(* CTCP VERSION, which are answered and change nothing.                    *)
(***************************************************************************)
EXTENDS Naturals, Sequences, SequencesExt

CONSTANTS
  Conns,      \* connections
  Settled,    \* those that have joined before the model starts
  Talkers,    \* those that will say something
  Leavers,    \* those that may go
  Channels,   \* the list the game hands out
  Items,      \* item names the catalogue knows
  Typos,      \* and one it does not
  MaxLines,   \* bound: of lines a client sends in its channels
  Nobody

ASSUME ChatAssumption ==
  /\ Settled \subseteq Conns /\ Talkers \subseteq Conns /\ Leavers \subseteq Conns
  /\ Items \cap Typos = {} /\ MaxLines \in Nat /\ Nobody \notin Conns
  /\ IsFiniteSet(Channels)

VARIABLES
  open,       \* the client's end of each socket
  inbound,    \* lines on their way to the service
  sessions,   \* the dialect's state of each connection
  serving,    \* what each connection's task is at
  members,    \* the register: the channels of the connections in it
  lock,       \* whose task holds the register
  writers,    \* lines for each connection's writer
  screen,     \* what each client has been sent
  sent,       \* lines each client has sent, its JOIN included
  commands    \* the shared state's queue for the game loop

task_vars  == <<sessions, serving, members, lock, writers, commands>>
chat_vars  == <<open, inbound, screen, sent, task_vars>>

-----------------------------------------------------------------------------
Line(verb, arg) == [verb |-> verb, arg |-> arg]
Said(channel, c, n) == [verb |-> "PRIVMSG", arg |-> channel, from |-> c, n |-> n]
Slash(command, item, c, n) ==
  [verb |-> "SLASH", arg |-> command, item |-> item, from |-> c, n |-> n]

Opening(c) == <<Line("HELLO", ""), Line("NICK", c), Line("USER", c)>>
Blank      == [nick |-> "", registered |-> FALSE, channels |-> {}, quit |-> FALSE]
Reading    == [at |-> "reading", line |-> Line("", ""), left |-> {}]

(* handle: what a line makes of a connection's own state.                  *)
handle(s, line) ==
  CASE line.verb = "NICK" /\ line.arg # ""  -> [s EXCEPT !.nick = line.arg]
    [] line.verb = "USER" /\ s.nick # ""    -> [s EXCEPT !.registered = TRUE]
    [] line.verb = "JOIN" /\ s.registered   -> [s EXCEPT !.channels = @ \cup {line.arg}]
    [] line.verb = "PART" /\ s.registered   -> [s EXCEPT !.channels = @ \ {line.arg}]
    [] line.verb = "QUIT"                   -> [s EXCEPT !.quit = TRUE]
    [] OTHER                                -> s

(* And what it is answered: the greeting once, a bare NICK with 431, so    *)
(* that the client keeps its name.                                         *)
replies(s, line) ==
  CASE line.verb = "NICK" /\ line.arg = ""                      -> <<Line("431", "")>>
    [] line.verb = "USER" /\ s.nick # "" /\ ~s.registered       -> <<Line("001", s.nick)>>
    [] line.verb = "JOIN" /\ s.registered                       -> <<line>>
    [] OTHER                                                    -> <<>>

(* run_command: refused when it names an item the catalogue does not know, *)
(* queued otherwise.                                                       *)
run_command(line) == IF line.item \in Typos THEN <<>> ELSE <<line>>
Notice(line)      == Line("NOTICE", IF line.item \in Typos THEN "no such item" ELSE "queued")

Onward(c) == IF sessions'[c].quit THEN "leaving" ELSE "reading"

(* A line is read and answered.  One that leaves the connection            *)
(* unregistered is finished with; any other goes on to the register.       *)
Read(c) ==
  LET line == Head(inbound[c])
  IN  /\ serving[c].at = "reading" /\ inbound[c] # <<>>
      /\ inbound' = [inbound EXCEPT ![c] = Tail(@)]
      /\ sessions' = [sessions EXCEPT ![c] = handle(@, line)]
      /\ writers' = [writers EXCEPT ![c] = @ \o replies(sessions[c], line)]
      /\ serving' = [serving EXCEPT ![c].line = line,
                              ![c].at = IF sessions'[c].registered THEN "enrolling"
                                        ELSE Onward(c)]
      /\ UNCHANGED <<open, members, lock, screen, sent, commands>>

Enrolled(c) == sessions[c].channels

(* The register is brought up to date, and the line routed: to the         *)
(* channel, to the game, or nowhere.                                       *)
Enrol(c) ==
  LET line == serving[c].line
  IN  /\ serving[c].at = "enrolling" /\ lock = Nobody
      /\ members' = [d \in DOMAIN members \cup {c} |->
                       IF d = c THEN Enrolled(c) ELSE members[d]]
      /\ IF line.verb = "SLASH"
         THEN /\ commands' = commands \o run_command(line)
              /\ writers' = [writers EXCEPT ![c] = Append(@, Notice(line))]
         ELSE UNCHANGED <<commands, writers>>
      /\ serving' = [serving EXCEPT ![c].at = IF line.verb = "PRIVMSG" THEN "relaying"
                                        ELSE IF sessions[c].quit THEN "leaving"
                                        ELSE "reading"]
      /\ UNCHANGED <<open, inbound, sessions, lock, screen, sent>>

(* Everyone in the channel but the sender, who has drawn its own line.     *)
Recipients(c) == {d \in DOMAIN members \ {c} : serving[c].line.arg \in members[d]}

(* Mutant: the lock is taken for each line handed over. *)
HoldingOnce(c, left) == Nobody

(* The lock is held from the first recipient to the last.                  *)
Holding(c, left) == IF left = {} THEN Nobody ELSE c

(* Mutant: a recipient whose writer has gone ends the relay. *)
StopsAtTheFirst(left, d) == IF open[d] THEN left \ {d} ELSE {}

(* A line that cannot be handed over is nobody else's concern.             *)
HandedOver(left, d) == left \ {d}

(* relay takes the lock...                                                 *)
BeginRelay(c) ==
  /\ serving[c].at = "relaying" /\ lock = Nobody
  /\ lock' = Holding(c, Recipients(c))
  /\ serving' = [serving EXCEPT ![c].left = Recipients(c),
                          ![c].at = IF Recipients(c) = {} THEN "reading" ELSE "sending"]
  /\ UNCHANGED <<open, inbound, sessions, members, writers, screen, sent, commands>>

(* ...and hands the line to one recipient after another, in any order.     *)
relay(c) ==
  /\ serving[c].at = "sending" /\ lock \in {c, Nobody}
  /\ \E d \in serving[c].left :
       LET left == HandedOver(serving[c].left, d)
       IN  /\ writers' = [writers EXCEPT ![d] =
                           IF serving[d].at = "gone" THEN @ ELSE Append(@, serving[c].line)]
           /\ lock' = Holding(c, left)
           /\ serving' = [serving EXCEPT ![c].left = left,
                                   ![c].at = IF left = {} THEN "reading" ELSE "sending"]
  /\ UNCHANGED <<open, inbound, sessions, members, screen, sent, commands>>

(* The socket is at its end, or fails with lines still unread.             *)
EndOfLines(c) ==
  /\ serving[c].at = "reading" /\ ~open[c]
  /\ inbound' = [inbound EXCEPT ![c] = <<>>]
  /\ serving' = [serving EXCEPT ![c].at = "leaving"]
  /\ UNCHANGED <<open, sessions, members, lock, writers, screen, sent, commands>>

(* The connection leaves the register, and its writer is stopped with      *)
(* whatever it still had to write.                                         *)
Gone(c) ==
  /\ serving[c].at = "leaving" /\ lock = Nobody
  /\ members' = [d \in DOMAIN members \ {c} |-> members[d]]
  /\ writers' = [writers EXCEPT ![c] = <<>>]
  /\ open' = [open EXCEPT ![c] = FALSE]
  /\ serving' = [serving EXCEPT ![c].at = "gone"]
  /\ UNCHANGED <<inbound, sessions, lock, screen, sent, commands>>

WriteLine(c) ==
  /\ open[c] /\ writers[c] # <<>>
  /\ screen' = [screen EXCEPT ![c] = Append(@, Head(writers[c]))]
  /\ writers' = [writers EXCEPT ![c] = Tail(@)]
  /\ UNCHANGED <<open, inbound, sessions, serving, members, lock, sent, commands>>

(* The game loop takes every command at once, at its tick.                 *)
take_commands ==
  /\ commands # <<>>
  /\ commands' = <<>>
  /\ UNCHANGED <<open, inbound, screen, sent, sessions, serving, members, lock, writers>>

-----------------------------------------------------------------------------
Shown(c, verb)   == \E i \in DOMAIN screen[c] : screen[c][i].verb = verb
Greeted(c)       == Shown(c, "001")
CanSpeak(c)      == Shown(c, "JOIN")

(* The client's lines.  It joins once it has been greeted and been given   *)
(* the channels over the game connection.                                  *)
SendLine(c) ==
  /\ open[c] /\ sent[c] <= MaxLines
  /\ \E line \in
          {Line("JOIN", ch) : ch \in IF Greeted(c) /\ sent[c] = 0 THEN Channels ELSE {}}
            \cup (IF CanSpeak(c) /\ c \in Talkers
                  THEN {Said(ch, c, sent[c]) : ch \in Channels}
                         \cup {Slash("give", item, c, sent[c]) : item \in Items \cup Typos}
                  ELSE {})
            \cup (IF CanSpeak(c) /\ c \in Leavers
                  THEN {Line("PART", ch) : ch \in Channels}
                         \cup {Line("NICK", ""), Line("QUIT", "")} ELSE {}) :
       inbound' = [inbound EXCEPT ![c] = Append(@, line)]
  /\ sent' = [sent EXCEPT ![c] = @ + 1]
  /\ UNCHANGED <<open, screen, task_vars>>

HangUp(c) ==
  /\ open[c] /\ c \in Leavers
  /\ open' = [open EXCEPT ![c] = FALSE]
  /\ UNCHANGED <<inbound, screen, sent, task_vars>>

ChatInit ==
  /\ open = [c \in Conns |-> TRUE]
  /\ inbound = [c \in Conns |-> IF c \in Settled THEN <<>> ELSE Opening(c)]
  /\ sessions = [c \in Conns |->
       IF c \in Settled
       THEN [nick |-> c, registered |-> TRUE, channels |-> Channels, quit |-> FALSE]
       ELSE Blank]
  /\ serving = [c \in Conns |-> Reading]
  /\ members = [c \in Settled |-> Channels]
  /\ lock = Nobody
  /\ writers = [c \in Conns |-> <<>>]
  /\ screen = [c \in Conns |->
       IF c \in Settled THEN <<Line("001", c)>> \o SetToSeq({Line("JOIN", ch) : ch \in Channels})
       ELSE <<>>]
  /\ sent = [c \in Conns |-> IF c \in Settled THEN 1 ELSE 0]
  /\ commands = <<>>

Serve(c) == Read(c) \/ Enrol(c) \/ BeginRelay(c) \/ relay(c) \/ EndOfLines(c) \/ Gone(c)

ChatNext ==
  \/ \E c \in Conns : Serve(c) \/ WriteLine(c) \/ SendLine(c) \/ HangUp(c)
  \/ take_commands

(* Tasks of a fair runtime, and the game loop's tick.                      *)
ChatFairness ==
  /\ \A c \in Conns : WF_chat_vars(Serve(c)) /\ WF_chat_vars(WriteLine(c))
  /\ WF_chat_vars(take_commands)

ChatSpec == ChatInit /\ [][ChatNext]_chat_vars /\ ChatFairness

-----------------------------------------------------------------------------
(* Where a screen shows something somebody said. *)
Heard(c) == {i \in DOMAIN screen[c] : screen[c][i].verb = "PRIVMSG"}

(* Two players who hear the same two lines hear them in the same order,    *)
(* whoever says them, and nobody hears a line twice: a line is relayed to  *)
(* all of the channel under one hold of the register (server.rs, relay).   *)
OneOrderForAll ==
  \A c, d \in Conns :
    \A i, j \in Heard(c), k, l \in Heard(d) :
      (i < j /\ screen[c][i] = screen[d][l] /\ screen[c][j] = screen[d][k]) => l < k

OnItsWay(line) ==
  \E i \in DOMAIN inbound[line.from] : inbound[line.from][i] = line

InChannel(c, channel) ==
  serving[c].at = "reading" /\ channel \in sessions[c].channels /\ open[c]

(* What is said in a channel comes to everyone who is in it: to all that   *)
(* neither leave nor hang up, whoever else does (server.rs, connection and *)
(* relay).                                                                 *)
SaidIsHeard ==
  \A s \in Talkers : \A n \in 1..MaxLines : \A channel \in Channels : \A d \in Conns \ {s} :
    LET line == Said(channel, s, n)
        HeardOrGone == \/ \E i \in DOMAIN screen[d] : screen[d][i] = line
                       \/ ~open[d] \/ sessions[d].quit \/ channel \notin sessions[d].channels
    IN  (OnItsWay(line) /\ InChannel(d, channel)) ~> HeardOrGone
=============================================================================
