--------------------------- MODULE AnswerContract ---------------------------
(***************************************************************************)
(* What the harness promises about people's answers, without requests,     *)
(* retries, statements, crashes and the order in which gates open:         *)
(*   - an answer is noted in a book before it counts, and under one key a  *)
(*     topic of a gate has one answer, which stays;                        *)
(*   - what is noted is delivered at most once, and nothing else is;       *)
(*   - a gate is decided once, by the first answer that was delivered to   *)
(*     it, or it times out, and what it decided never changes.             *)
(***************************************************************************)
EXTENDS Naturals, Sequences, SequencesExt

CONSTANTS Gates, Answers, Open, Expired
VARIABLES book, mail, outcome

avars == <<book, mail, outcome>>

AInit == book = {} /\ mail = <<>> /\ outcome = [g \in Gates |-> Open]

Note ==
  /\ \E a \in Answers :
       /\ \A b \in book : ~(b.gate = a.gate /\ b.lane = a.lane /\ b.key = a.key)
       /\ book' = book \cup {a}
  /\ UNCHANGED <<mail, outcome>>

Deliver ==
  /\ \E a \in book :
       /\ \A b \in ToSet(mail) : b.key # a.key
       /\ mail' = Append(mail, a)
  /\ UNCHANGED <<book, outcome>>

For(g, a) == a.gate = g /\ a.lane = "human"

Decided(g) ==
  /\ outcome[g] = Open
  /\ \E i \in 1..Len(mail) :
       /\ For(g, mail[i]) /\ \A j \in 1..i - 1 : ~For(g, mail[j])
       /\ outcome' = [outcome EXCEPT ![g] = mail[i]]
  /\ UNCHANGED <<book, mail>>

\* A gate gives up only while nothing has been delivered to it.
GivesUp(g) ==
  /\ outcome[g] = Open /\ \A a \in ToSet(mail) : ~For(g, a)
  /\ outcome' = [outcome EXCEPT ![g] = Expired]
  /\ UNCHANGED <<book, mail>>

ANext == Note \/ Deliver \/ \E g \in Gates : Decided(g) \/ GivesUp(g)

ASpec == AInit /\ [][ANext]_avars
=============================================================================
