------------------------------- MODULE Wallet -------------------------------
(***************************************************************************)
(* What a player is promised about rubies: the balance changes in single   *)
(* indivisible steps, every one of them an award, a purchase the balance   *)
(* covers, a gift, a correction that leaves no debt, or one of the         *)
(* once-in-a-lifetime rewards.  No transaction, lock or journal is visible *)
(* at this level.                                                          *)
(***************************************************************************)
EXTENDS Integers

CONSTANTS Items,    \* everything that can be owned
          Price,    \* Items -> Nat
          Once      \* reward name -> Nat, paid at most once

VARIABLES balance, owned, claimed

walletVars == <<balance, owned, claimed>>

WalletInit == balance = 0 /\ owned = {} /\ claimed = {}

Earn == /\ balance' \in Nat
        /\ balance' > balance
        /\ UNCHANGED <<owned, claimed>>

Correct == /\ balance' \in Nat
           /\ balance' < balance
           /\ UNCHANGED <<owned, claimed>>

Claim(r) == /\ r \notin claimed
            /\ claimed' = claimed \cup {r}
            /\ balance' = balance + Once[r]
            /\ UNCHANGED owned

Buy(i) == /\ i \notin owned
          /\ Price[i] <= balance
          /\ owned' = owned \cup {i}
          /\ balance' = balance - Price[i]
          /\ UNCHANGED claimed

\* A purchase that completes a collection pays its reward in the same step.
BuyAndClaim(i, r) == /\ i \notin owned
                     /\ r \notin claimed
                     /\ Price[i] <= balance
                     /\ owned' = owned \cup {i}
                     /\ claimed' = claimed \cup {r}
                     /\ balance' = balance - Price[i] + Once[r]

Give(i) == /\ i \notin owned
           /\ owned' = owned \cup {i}
           /\ UNCHANGED <<balance, claimed>>

WalletNext == \/ Earn
              \/ Correct
              \/ \E r \in DOMAIN Once : Claim(r)
              \/ \E i \in Items :
                    \/ Buy(i)
                    \/ Give(i)
                    \/ \E r \in DOMAIN Once : BuyAndClaim(i, r)

WalletSpec == WalletInit /\ [][WalletNext]_walletVars
=============================================================================
