--------------------------- MODULE MCWalletKernel ---------------------------
(***************************************************************************)
(* Small instances of the Wallet Kernel for TLC.                           *)
(***************************************************************************)
EXTENDS WalletKernel, TLC

CONSTANTS a, b, c       \* Spend Intents
CONSTANT west         \* the seller

OneSeller == [i \in Intents |-> west]

\* Every intent asks for two units.
Equal == [i \in Intents |-> 2]

\* Intents that differ in name only.
Interchangeable == Permutations(Intents)
=============================================================================
