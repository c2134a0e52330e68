-------------------------------- MODULE Mailbox --------------------------------
(***************************************************************************)
(* What an endpoint promises to an operator who puts messages on its data  *)
(* links: each link is a queue.  A message is handed to the host at most   *)
(* once, and the messages that wait on a link are handed over in the order *)
(* they were put.  Two things are not promised.  A message may be handed   *)
(* over at once and so overtake those that wait; and messages may be given *)
(* up with their link, but never one put before another that is kept.      *)
(***************************************************************************)
EXTENDS Naturals, Sequences

CONSTANTS
  Link,  \* the data links
  Msg    \* the messages

VARIABLES
  box,       \* box[l]: the messages that wait on link l, the oldest first
  handed,    \* the messages handed to the host
  accepted   \* the messages the operator has put

mailVars == <<box, handed, accepted>>

Init == box = [l \in Link |-> <<>>] /\ handed = {} /\ accepted = {}

Accept(m) == m \notin accepted /\ accepted' = accepted \cup {m}

Put(l, m) ==
  /\ Accept(m)
  /\ box' = [box EXCEPT ![l] = Append(@, m)]
  /\ UNCHANGED handed

PutThrough(m) ==
  /\ Accept(m)
  /\ handed' = handed \cup {m}
  /\ UNCHANGED box

HandOver(l) ==
  /\ box[l] # <<>>
  /\ handed' = handed \cup {Head(box[l])}
  /\ box' = [box EXCEPT ![l] = Tail(@)]
  /\ UNCHANGED accepted

Prefixes(q) == {SubSeq(q, 1, n) : n \in 0..Len(q)}

(* Of the messages on each link only the oldest are kept, as many as be *)
GiveUp ==
  /\ box' \in [Link -> UNION {Prefixes(box[l]) : l \in Link}]
  /\ \A l \in Link : box'[l] \in Prefixes(box[l])
  /\ UNCHANGED <<handed, accepted>>

Next ==
  \/ \E m \in Msg : PutThrough(m) \/ \E l \in Link : Put(l, m)
  \/ \E l \in Link : HandOver(l)
  \/ GiveUp

Spec == Init /\ [][Next]_mailVars
================================================================================
