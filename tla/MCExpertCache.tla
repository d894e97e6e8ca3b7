--------------------------- MODULE MCExpertCache ---------------------------
(* Two requests: one whose prefill of two rows ends in a smaller budget and    *)
(* whose policy is plain LRU, then one that protects its previous routes.  Or  *)
(* one whose decode budget holds a row's experts and not those of a token.     *)
EXTENDS ExpertCache
TwoRequests ==
    <<[rows |-> 2, tokens |-> 1, prefill |-> 4, decode |-> 3],
      [rows |-> 1, tokens |-> 1, prefill |-> 3, decode |-> 3]>>
SmallBudget ==
    <<[rows |-> 1, tokens |-> 1, prefill |-> 4, decode |-> 2]>>
=============================================================================
