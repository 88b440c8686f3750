------------------------------ MODULE Balances ------------------------------
(***************************************************************************)
(* What the execution of blocks promises to an account's owner: balances   *)
(* change by whole transactions only, one after the other.  A transfer     *)
(* inside of a shard moves an amount between two of its accounts, the      *)
(* payer's half of a transfer to another shard withdraws an amount, and    *)
(* the relayed other half deposits one.  Balances may become negative.     *)
(***************************************************************************)
EXTENDS Integers

CONSTANTS Accounts, ShardOf, Amount

VARIABLE balance

Init == \A a, b \in Accounts : balance[a] = balance[b]

Transfer(a, b) ==
  /\ a # b /\ ShardOf[a] = ShardOf[b]
  /\ balance' = [balance EXCEPT ![a] = @ - Amount, ![b] = @ + Amount]

Withdraw(a) == balance' = [balance EXCEPT ![a] = @ - Amount]

Deposit(a) == balance' = [balance EXCEPT ![a] = @ + Amount]

Next ==
  \/ \E a, b \in Accounts : Transfer(a, b)
  \/ \E a \in Accounts : Withdraw(a) \/ Deposit(a)

Spec == Init /\ [][Next]_balance
=============================================================================
