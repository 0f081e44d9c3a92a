----------------------------- MODULE MCOwnerFeed -----------------------------
(* OwnerFeed, and the advice to the guests, on small instances. *)
EXTENDS OwnerFeed, MenuAdvice

CONSTANTS r1, r2

\* Next to an owner's panel in any state, what the guests' menu says can be
\* ordered can be ordered: no suggestion, replacement or recommendation is
\* refused by the validation of the basket (conversion_engine.py).
AdviceCanBeFollowed == FeedTypeOK /\ AdviceIsSound

=============================================================================
