-------------------------- MODULE OrderedDelivery --------------------------
(* What the outbox and the inbox together promise a consumer about the     *)
(* events of one ordering key: its handler runs for each of them at most   *)
(* once, in the order they were appended, and leaves none out.             *)
EXTENDS Naturals, Sequences

VARIABLES appended,  \* the events producers have appended, in order
          handled    \* the events the handler has run for, in order

Init == appended = <<>> /\ handled = <<>>

AppendEvent ==
  /\ appended' = Append(appended, Len(appended) + 1)
  /\ UNCHANGED handled

Handle ==
  /\ Len(handled) < Len(appended)
  /\ handled' = Append(handled, appended[Len(handled) + 1])
  /\ UNCHANGED appended

Spec == Init /\ [][AppendEvent \/ Handle]_<<appended, handled>>
=============================================================================
