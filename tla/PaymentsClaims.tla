--------------------------- MODULE PaymentsClaims ---------------------------
(***************************************************************************)
(* What a comment says of a notification that is delivered again, refuted  *)
(* by the handlers as they are.                                            *)
(***************************************************************************)
EXTENDS Payments

\* WebhookPaymentListener looks for the key of the notification "to avoid
\* double-processing": one payment never pays for two things.
CountedOnce == \A n \in Notes : Cardinality(booked[n]) <= 1
=============================================================================
