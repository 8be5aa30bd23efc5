----------------------------- MODULE MCRuntime ------------------------------
(* What the server has promised to do by itself, in three parts that share *)
(* no state; one of them runs. "writer": the writer task, whose writes may *)
(* fail, behind a web and a game thread. "chat": four connections of the   *)
(* chat service, of which three have joined before. "bench": the hands and *)
(* an anvil, a torch of a log and a plank and a table of two logs.         *)
EXTENDS MCPersistence, Chat, Workbench

CONSTANTS log, plank, torch, table, hands, anvil, Hand, Anvil

VARIABLE part

MCNeeds ==
  torch :> <<[name |-> log, count |-> 1], [name |-> plank, count |-> 1]>>
    @@ table :> <<[name |-> log, count |-> 2]>>
MCMakes == torch :> [name |-> log, count |-> 1] @@ table :> [name |-> plank, count |-> 2]
MCStationOf == torch :> Hand @@ table :> Anvil
MCKindOf == hands :> Hand @@ anvil :> Anvil
MCMaxSlots == hands :> 1 @@ anvil :> 2
MCDuration == torch :> 1 @@ table :> 2

RuntimeInit == part \in {"writer", "chat", "bench"} /\ Init /\ ChatInit /\ BenchInit

RuntimeNext ==
  /\ UNCHANGED part
  /\ \/ part = "writer" /\ Next /\ UNCHANGED <<chat_vars, bench_vars>>
     \/ part = "chat" /\ ChatNext /\ UNCHANGED <<vars, bench_vars>>
     \/ part = "bench" /\ BenchNext /\ UNCHANGED <<vars, chat_vars>>

RuntimeSpec ==
  /\ RuntimeInit /\ [][RuntimeNext]_<<part, vars, chat_vars, bench_vars>>
  /\ WF_vars(part = "writer" /\ Write)
  /\ \A t \in Threads : WF_vars(part = "writer" /\ Record(t))
  /\ \A c \in Conns : /\ WF_chat_vars(part = "chat" /\ Serve(c))
                       /\ WF_chat_vars(part = "chat" /\ WriteLine(c))
  /\ WF_chat_vars(part = "chat" /\ take_commands)
  /\ WF_bench_vars(part = "bench" /\ crafting_announcements)
=============================================================================
