------------------------------ MODULE Lending ------------------------------
(***************************************************************************)
(* What an inventory promises its organization, without requests or rows:  *)
(* a thing is lent while its label says that it is free, and the label     *)
(* follows the loans, unless somebody relabels the thing meanwhile.        *)
(***************************************************************************)
EXTENDS Naturals

CONSTANT Things
VARIABLE shelf  \* shelf[t]: how often t is lent out; is t known, is t kept, is t labelled free

Thing    == [loans : Nat, known : BOOLEAN, kept : BOOLEAN, free : BOOLEAN]
Absent   == [loans |-> 0, known |-> FALSE, kept |-> FALSE, free |-> FALSE]
Acquired == [loans |-> 0, known |-> TRUE, kept |-> TRUE, free |-> TRUE]

Init == shelf \in [Things -> {Absent, Acquired}]

Show(t, n, kept, free) ==
  shelf' = [shelf EXCEPT ![t] = [loans |-> n, known |-> TRUE, kept |-> kept, free |-> free]]

Acquire(t) == shelf[t] = Absent /\ Show(t, 0, TRUE, TRUE)

Lend(t) ==
  /\ shelf[t].kept /\ shelf[t].free
  /\ Show(t, shelf[t].loans + 1, TRUE, FALSE)

(* It is free again, though it may have been withdrawn meanwhile. *)
TakeBack(t) ==
  /\ shelf[t].loans > 0
  /\ Show(t, shelf[t].loans - 1, shelf[t].kept, TRUE)

(* The loan, if there is one, can still be taken back. *)
Withdraw(t) == shelf[t].known /\ Show(t, shelf[t].loans, FALSE, TRUE)

(* Somebody writes another label.  That does not end a loan. *)
Relabel(t) == shelf[t].kept /\ \E k, f \in BOOLEAN : Show(t, shelf[t].loans, k, f)

Next == \E t \in Things : Acquire(t) \/ Lend(t) \/ TakeBack(t) \/ Withdraw(t) \/ Relabel(t)

Spec == Init /\ [][Next]_shelf
=============================================================================
