------------------------------ MODULE MCPlayer ------------------------------
(* What a player owns, in three parts that share no state; one of them     *)
(* runs. "belongings": MCBelongings. "mail" and "letters": a mailbox with  *)
(* up to two messages at a time, a rucksack of one square and six          *)
(* entities. In "mail" every message has something in it and only a        *)
(* rucksack is ever refused without a cause; in "letters" there is one     *)
(* tool to attach, nothing is read and any change may be refused.          *)
EXTENDS MCBelongings, Mailbox

VARIABLE part

(* What a tick sends is settled by then, so that the writer, and a crash,  *)
(* may go first: whatever a player does meanwhile leads to the same.       *)
WriterFirst == unwritten # <<>> => WriteOne \/ CrashAndRestart

RefusedInbox ==
  /\ WriteOne /\ UNCHANGED disk
  /\ Head(unwritten).field = "mail" /\ CanBeWritten(Head(unwritten))

Parcels ==
  /\ MailNext /\ WriterFirst
  /\ \A m \in ToSet(mailbox') : m.held # <<>>
  /\ ~RefusedInbox

Letters ==
  /\ MailNext /\ WriterFirst
  /\ \A m \in ToSet(mailbox') : m.flags = {}
  /\ composed' \subseteq Tools

PlayerInit == part \in {"belongings", "mail", "letters"} /\ BInit /\ MailInit

PlayerNext ==
  /\ UNCHANGED part
  /\ \/ part = "belongings" /\ BNext /\ UNCHANGED mail_vars
     \/ part = "mail" /\ Parcels /\ UNCHANGED bvars
     \/ part = "letters" /\ Letters /\ UNCHANGED bvars

PlayerSpec == PlayerInit /\ [][PlayerNext]_<<part, bvars, mail_vars>>
=============================================================================
