------------------------ MODULE MCLimiterAndBilling -------------------------
(***************************************************************************)
(* Instances for TLC of the rate limiter and of billing with one handler,  *)
(* which share no state: a behaviour is one of the component `part` names, *)
(* while the other rests in its initial state.                             *)
(***************************************************************************)
EXTENDS RateLimiter, MCBilling

VARIABLE part

BothInit == part \in {"limiter", "billing"} /\ RateInit /\ Init

bothVars == <<rateVars, vars, part>>

Limiter(step) == part = "limiter" /\ step /\ UNCHANGED <<vars, part>>

Billing(step) == part = "billing" /\ step /\ UNCHANGED <<rateVars, part>>

BothNext == Limiter(RateNext) \/ Billing(Next)

\* The fairness of RateFairSpec and of Billing's FairSpec.
BothSpec ==
    /\ BothInit /\ [][BothNext]_bothVars
    /\ WF_bothVars(Limiter(RateSecond))
    /\ \A c \in Callers :
          WF_bothVars(Limiter(Incr(c))) /\ WF_bothVars(Limiter(Expire(c)))
    /\ \A h \in Handlers : WF_bothVars(Billing(HandlerStep(h)))
    /\ \A e \in Events :
          SF_bothVars(Billing(\E h \in Handlers :
                         events[e] \notin SettledEvent /\ Deliver(h, e)))
=============================================================================
