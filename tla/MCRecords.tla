----------------------------- MODULE MCRecords ------------------------------
(* What is remembered of a player, in three parts that share no state; one *)
(* of them runs. "store": the shared state, the channel and the writer,    *)
(* when one thread makes the changes. "accounts": two clients behind one   *)
(* address. "keep": two squares for a kit of two pieces with details, or a *)
(* deed; one of the two records may be refused at a time, and a restart    *)
(* that finds records of two ticks is as far as it goes.                   *)
EXTENDS MCPersistence, Accounts, Keepsakes

VARIABLE part

Keep == ~torn /\ KeepNext /\ Cardinality(refused') <= 1

RecordsInit ==
  /\ part \in {"store", "accounts", "keep"}
  /\ Init /\ AccountsInit /\ KeepInit
  /\ part # "keep" => kit = CHOOSE k \in Kits : TRUE

RecordsNext ==
  /\ UNCHANGED part
  /\ \/ part = "store" /\ Next /\ UNCHANGED <<account_vars, keep_vars>>
     \/ part = "accounts" /\ AccountsNext /\ UNCHANGED <<vars, keep_vars>>
     \/ part = "keep" /\ Keep /\ UNCHANGED <<vars, account_vars>>

RecordsSpec ==
  /\ RecordsInit /\ [][RecordsNext]_<<part, vars, account_vars, keep_vars>>
  /\ WF_vars(part = "store" /\ Write)
  /\ \A t \in Threads : WF_vars(part = "store" /\ Record(t))
  /\ WF_keep_vars(part = "keep" /\ ~torn /\ KeepTick)
  /\ WF_keep_vars(part = "keep" /\ ~torn /\ KeepWrite)
=============================================================================
