------------------------------ MODULE Channel ------------------------------
(***************************************************************************)
(* The channel of channel.ts.  Its linked list of entries is the sequence  *)
(* of the values sent so far; a receiver is a position in it.              *)
(***************************************************************************)
EXTENDS Naturals, Sequences

NewSender == <<>>

(* Sender.send, after which #head is the end of the list again.             *)
SendValue(sender, value) == Append(sender, value)

(* Sender.receiver: a receiver starts at #head, and hears nothing of what   *)
(* was sent before it was made.                                             *)
Receiver(sender) == Len(sender)

(* Receiver.next, where there is a next value.                              *)
HasNext(sender, receiver) == receiver < Len(sender)
NextValue(sender, receiver) == sender[receiver + 1]
=============================================================================
