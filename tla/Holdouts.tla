------------------------------ MODULE Holdouts ------------------------------
(***************************************************************************)
(* What is known of holdout corpora wherever they are spent.               *)
(***************************************************************************)
CONSTANTS
  Corpus,    \* corpora, by seal
  Unspent    \* the entry of a corpus that was not spent

NoReceipts == [c \in Corpus |-> Unspent]
=============================================================================
