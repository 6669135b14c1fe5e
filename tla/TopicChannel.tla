---------------------------- MODULE TopicChannel ----------------------------
(***************************************************************************)
(* What a topic promises its synchronous subscribers, without its lock,    *)
(* threads and counters: a publication reaches every open subscription at  *)
(* once; each subscription hands its events to its callback one at a time, *)
(* each at most once and those of one publisher in the order it published  *)
(* them; closing a subscription drops what it has not handed over, and no  *)
(* event reaches a closed one.                                             *)
(***************************************************************************)
EXTENDS Integers, Sequences

CONSTANTS
  Publishers,      \* threads that publish
  Subscribers      \* subscriptions

VARIABLES
  published,       \* how many events each publisher has published
  open,            \* the subscriptions that are open
  closed,          \* those that have been closed, for good
  inbox,           \* what each subscription has still to hand over
  handed           \* what it has handed to its callback, in order

vars == <<published, open, closed, inbox, handed>>

Init ==
  /\ published = [p \in Publishers |-> 0]
  /\ open = {}
  /\ closed = {}
  /\ inbox = [s \in Subscribers |-> <<>>]
  /\ handed = [s \in Subscribers |-> <<>>]

Open(s) ==
  /\ s \notin open \cup closed
  /\ open' = open \cup {s}
  /\ UNCHANGED <<published, closed, inbox, handed>>

Publish(p) ==
  LET event == [from |-> p, no |-> published[p] + 1]
  IN  /\ published' = [published EXCEPT ![p] = @ + 1]
      /\ inbox' = [s \in Subscribers |->
                     IF s \in open THEN Append(inbox[s], event) ELSE inbox[s]]
      /\ UNCHANGED <<open, closed, handed>>

\* The oldest event of some publisher is handed to the callback.
HandOver(s) ==
  \E i \in 1..Len(inbox[s]) :
    /\ \A j \in 1..(i - 1) : inbox[s][j].from # inbox[s][i].from
    /\ handed' = [handed EXCEPT ![s] = Append(@, inbox[s][i])]
    /\ inbox' = [inbox EXCEPT ![s] = SubSeq(@, 1, i - 1)
                                       \o SubSeq(@, i + 1, Len(@))]
    /\ UNCHANGED <<published, open, closed>>

Close(s) ==
  /\ s \in open
  /\ open' = open \ {s}
  /\ closed' = closed \cup {s}
  /\ inbox' = [inbox EXCEPT ![s] = <<>>]
  /\ UNCHANGED <<published, handed>>

Next ==
  \/ \E p \in Publishers : Publish(p)
  \/ \E s \in Subscribers : Open(s) \/ HandOver(s) \/ Close(s)

Spec == Init /\ [][Next]_vars

=============================================================================
