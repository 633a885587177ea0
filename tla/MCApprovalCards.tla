-------------------------- MODULE MCApprovalCards --------------------------
(* Four approval requests, one of each shape, of which three are ever asked: *)
(* two tool calls of this process, one only the broker knows, a diff to      *)
(* apply.                                                                    *)
EXTENDS ApprovalCards, FiniteSets, TLC

CONSTANTS call, command, offer, diff

Origins == (call :> "local") @@ (command :> "local") @@ (offer :> "broker") @@ (diff :> "direct")
Shapes == (call :> "tiers") @@ (command :> "exec") @@ (offer :> "hunks") @@ (diff :> "plain")
ThreeAsked == Cardinality({a \in Asks : status[a] # "new"}) <= 3

\* Two offers that only the broker knows.
OfferOrigins == [a \in Asks |-> "broker"]
OfferShapes == [a \in Asks |-> "plain"]
============================================================================
