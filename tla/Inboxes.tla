------------------------------- MODULE Inboxes -------------------------------
(***************************************************************************)
(* The per-connection inbox of state/message_inbox.rs, as operators on one *)
(* inbox.  A connection has either no inbox (Nil: the HashMap of Inboxes   *)
(* has no entry for its FileId) or a queue of messages and a generation,   *)
(* the counter that trips the latches handed out by InboxNextMessage.      *)
(*                                                                         *)
(* The generation is a u64 in the code.  It counts queued messages and     *)
(* bumps of one connection, so it is a natural number here: 2^64 of them   *)
(* do not happen in the life of a connection.                              *)
(***************************************************************************)
EXTENDS Common, Naturals, Sequences

Inbox(Message) == [messages : Seq(Message), generation : Nat]

(* MessageInbox::new *)
NewInbox == [messages |-> <<>>, generation |-> 0]

(* Inboxes::ensure, when the allocation succeeds *)
Ensure(inbox) == IF inbox = Nil THEN NewInbox ELSE inbox

(* Mutated form of QueueAll: the messages are pushed at the front. *)
QueueAtFront(inbox, ms) ==
    [messages   |-> ms \o Ensure(inbox).messages,
     generation |-> Ensure(inbox).generation + Len(ms)]

(* Inboxes::queue, once for each message of ms in turn *)
QueueAll(inbox, ms) ==
    [messages   |-> Ensure(inbox).messages \o ms,
     generation |-> Ensure(inbox).generation + Len(ms)]

(* Mutated form of Notify: the service's latch is not bumped for a call. *)
NotifyNobody(inbox) == inbox

(* Inboxes::notify: an inbox that does not exist is left alone *)
Notify(inbox) ==
    IF inbox = Nil THEN Nil ELSE [inbox EXCEPT !.generation = @ + 1]

HasMessage(inbox) == inbox # Nil /\ inbox.messages # <<>>

(* Mutated form of Pop: messages leave from the wrong end of the queue. *)
PopLast(inbox) == [inbox EXCEPT !.messages = SubSeq(@, 1, Len(@) - 1)]

(* MessageInbox::try_pop on an inbox that has a message *)
Pop(inbox) == [inbox EXCEPT !.messages = Tail(@)]

(* InboxLatch::poll with Inboxes::poll_latch: the latch is readable when   *)
(* the generation has moved, and hangs up when the inbox is gone.          *)
PollLatch(inbox, observed) == inbox = Nil \/ inbox.generation # observed
==============================================================================
