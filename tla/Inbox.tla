--------------------------------- MODULE Inbox ---------------------------------
(***************************************************************************)
(* What the inbox promises to those who read it: a message is filed once,  *)
(* in a conversation of its sender, and never moves; it is counted at most *)
(* once, after that; and a call of the provider is done only when all its  *)
(* messages are filed.                                                     *)
(***************************************************************************)
EXTENDS Naturals

CONSTANTS Calls, Messages, Customers, Conversations,
          From,      \* the sender of each message
          Contents,  \* the messages of each call
          None

VARIABLES filed,    \* the conversation of each message, or None
          owner,    \* the customer of each conversation, or None
          unread,   \* the counter of each conversation
          pending,  \* messages that are filed and may yet be counted
          done      \* calls that are done

vars == <<filed, owner, unread, pending, done>>

Init ==
    /\ filed = [m \in Messages |-> None]
    /\ owner = [c \in Conversations |-> None]
    /\ unread = [c \in Conversations |-> 0]
    /\ pending = {}
    /\ done = {}

Open(c) ==
    /\ owner[c] = None
    /\ \E u \in Customers : owner' = [owner EXCEPT ![c] = u]
    /\ UNCHANGED <<filed, unread, pending, done>>

File(m, c) ==
    /\ filed[m] = None
    /\ owner[c] = From[m]
    /\ filed' = [filed EXCEPT ![m] = c]
    /\ pending' = pending \cup {m}
    /\ UNCHANGED <<owner, unread, done>>

Count(m) ==
    /\ m \in pending
    /\ unread' = [unread EXCEPT ![filed[m]] = @ + 1]
    /\ pending' = pending \ {m}
    /\ UNCHANGED <<filed, owner, done>>

(* Whoever was to count the message was cut off.                           *)
Forget(m) ==
    /\ m \in pending
    /\ pending' = pending \ {m}
    /\ UNCHANGED <<filed, owner, unread, done>>

Close(e) ==
    /\ \A m \in Contents[e] : filed[m] # None
    /\ done' = done \cup {e}
    /\ UNCHANGED <<filed, owner, unread, pending>>

(* A replay, or a failure that is noted late.                              *)
Reopen(e) ==
    /\ done' = done \ {e}
    /\ UNCHANGED <<filed, owner, unread, pending>>

Next ==
    \/ \E c \in Conversations : Open(c) \/ \E m \in Messages : File(m, c)
    \/ \E m \in Messages : Count(m) \/ Forget(m)
    \/ \E e \in Calls : Close(e) \/ Reopen(e)

Spec == Init /\ [][Next]_vars
===============================================================================
