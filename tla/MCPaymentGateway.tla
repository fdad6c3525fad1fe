-------------------------- MODULE MCPaymentGateway --------------------------
(* A small instance of PaymentGateway. *)
EXTENDS PaymentGateway, TLC

CONSTANTS shop, cafe, alice, bob, t1

\* Merchants are interchangeable, and so are payers.
Symmetry == Permutations(Merchant) \cup Permutations(Payer)
=============================================================================
