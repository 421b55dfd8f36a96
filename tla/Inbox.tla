--------------------------------- MODULE Inbox ---------------------------------
(***************************************************************************)
(* Inquiries: the messages between customers and the staff, and the page   *)
(* on which a clerk reads and answers them.  The page polls the list of    *)
(* conversations and the open conversation; opening one with unread        *)
(* messages marks it read by a call of its own.  The text of an answer is  *)
(* left out.  Answers may be lost.                                         *)
(***************************************************************************)
EXTENDS Integers, Sequences

CONSTANTS
  Askers,      \* customers who write
  LeavesEarly, \* whether the clerk leaves a conversation before it was loaded
               \* again after it was marked read
  MaxMail      \* bound: messages

ASSUME InboxAssumption == LeavesEarly \in BOOLEAN /\ MaxMail \in Nat

VARIABLES
  mail,     \* CustomerMessage rows by age
  badge,    \* customer -> whether the list shows unread messages of his
  chosen,   \* the customers whose conversation is open: none or one
  seen,     \* messages the page has shown (history)
  marking,  \* customers whose markRead call is under way
  caughtUp, \* whether the conversation was loaded since it was marked read
  sending   \* the customers the page waits to have answered: none or one

inboxVars == <<mail, badge, chosen, seen, marking, caughtUp, sending>>

InboxInit ==
  /\ mail = << >> /\ badge = [c \in Askers |-> FALSE]
  /\ chosen = {} /\ seen = {} /\ marking = {} /\ caughtUp = TRUE /\ sending = {}

Message(c, direction) == [customer |-> c, direction |-> direction, read |-> direction = "OUTBOUND"]
Unread(i) == mail[i].direction = "INBOUND" /\ ~ mail[i].read
UnreadOf(c) == {i \in DOMAIN mail : mail[i].customer = c /\ Unread(i)}

-------------------------------------------------------------------------------
(* A customer writes.                                                      *)
Write(c) ==
  /\ Len(mail) < MaxMail
  /\ mail' = Append(mail, Message(c, "INBOUND"))
  /\ UNCHANGED <<badge, chosen, seen, marking, caughtUp, sending>>

(* listConversations, polled.                                              *)
ListConversations ==
  /\ badge' = [c \in Askers |-> UnreadOf(c) # {}]
  /\ badge' # badge
  /\ UNCHANGED <<mail, chosen, seen, marking, caughtUp, sending>>

MayTurnAway == LeavesEarly \/ (caughtUp /\ marking = {})

OpenConversation(c) ==
  /\ chosen # {c} => MayTurnAway
  /\ chosen' = {c}
  /\ marking' = IF badge[c] THEN marking \cup {c} ELSE marking
  /\ caughtUp' = (caughtUp /\ chosen = {c} /\ ~ badge[c])
  /\ UNCHANGED <<mail, badge, seen, sending>>

(* thread, polled while a conversation is open.                            *)
LoadThread ==
  /\ chosen # {}
  /\ seen' = seen \cup {i \in DOMAIN mail : mail[i].customer \in chosen}
  /\ caughtUp' = (marking = {})
  /\ UNCHANGED <<mail, badge, chosen, marking, sending>>

EveryUnread(c) == {i \in DOMAIN mail : Unread(i)}
ToMark(c) == UnreadOf(c)

(* markRead; the call may be lost before or after the rows are updated.    *)
MarkRead(c) ==
  /\ c \in marking
  /\ mail' = [i \in DOMAIN mail |-> IF i \in ToMark(c) THEN [mail[i] EXCEPT !.read = TRUE] ELSE mail[i]]
  /\ UNCHANGED <<badge, chosen, seen, marking, caughtUp, sending>>
MarkReadEnds(c) ==
  /\ c \in marking
  /\ marking' = marking \ {c}
  /\ UNCHANGED <<mail, badge, chosen, seen, caughtUp, sending>>

SendAnswer(c) ==
  /\ chosen = {c} /\ sending = {}
  /\ sending' = {c}
  /\ UNCHANGED <<mail, badge, chosen, seen, marking, caughtUp>>
Reply(c) ==
  /\ c \in sending /\ Len(mail) < MaxMail
  /\ mail' = Append(mail, Message(c, "OUTBOUND"))
  /\ sending' = {}
  /\ UNCHANGED <<badge, chosen, seen, marking, caughtUp>>
ReplyFailed ==
  /\ sending # {} /\ sending' = {}
  /\ UNCHANGED <<mail, badge, chosen, seen, marking, caughtUp>>

InboxNext ==
  \/ \E c \in Askers :
       \/ Write(c) \/ OpenConversation(c) \/ MarkRead(c) \/ MarkReadEnds(c)
       \/ SendAnswer(c) \/ Reply(c)
  \/ ListConversations \/ LoadThread \/ ReplyFailed

InboxSpec == InboxInit /\ [][InboxNext]_inboxVars

-------------------------------------------------------------------------------
InboxTypeOK ==
  /\ seen \subseteq DOMAIN mail
  /\ chosen \cup marking \cup sending \subseteq Askers

(* A customer's message counts as read only when the page has shown it, or *)
(* has its conversation open and will show it at the next poll: markRead   *)
(* marks whatever has arrived by then, also what the page has not loaded.  *)
ReadIsShown == \A i \in DOMAIN mail :
  mail[i].direction = "INBOUND" /\ mail[i].read => i \in seen \/ mail[i].customer \in chosen
===============================================================================
