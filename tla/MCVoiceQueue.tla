----------------------------- MODULE MCVoiceQueue -----------------------------
(***************************************************************************)
(* Two voice works, one track each, with the same relative path: the       *)
(* smallest library the personalized voice queue can fail on.              *)
(***************************************************************************)
EXTENDS TLC

VARIABLES content, session, resume, queue, call, calls, mediaRestarts, last, raced, refused

M == INSTANCE Media WITH
    Installs <- {"i1", "i2"}, Paths <- {"p1"}, PathOrder <- <<"p1">>,
    Content <- ("i1" :> {{"p1"}}) @@ ("i2" :> {{"p1"}}),
    Sessions <- {"s1"}, Callers <- {"c1"}, MinVoiceWorks <- 2, QueueLimit <- 2,
    MaxPosition <- 1, MaxCalls <- 1, MaxMediaRestarts <- 0

Spec == M!MediaSpec

\* A personalized voice queue over enough works can be created.
VoiceQueueOpens == M!VoiceQueueOpens
=============================================================================
