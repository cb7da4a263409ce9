-------------------------- MODULE MCNoticeDelivery --------------------------
(* NoticeDelivery on a small instance: one post from before the first round, *)
(* one that appears later, and one notice of the operator.                   *)
EXTENDS NoticeDelivery
=============================================================================
