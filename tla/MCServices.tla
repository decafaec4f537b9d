------------------------------ MODULE MCServices ------------------------------
(***************************************************************************)
(* The smaller services and parts of the mock server, each with values of  *)
(* its constants.  They share no state, so a behaviour is one of one of    *)
(* them, which "part" names, and the others stand still.                   *)
(***************************************************************************)
EXTENDS Cashier, RateLimiter, Tokens, OddsFeed, SafePlay, FraudWatch, Runners, Notices, Mirror

CONSTANTS agent, player, won, beaten, super, under, CashOffer, CashDealer, MaxMarketOps

MCUser == {agent, player}
MCOpening == [u \in MCUser |-> 3]
MCParent == [u \in MCUser |-> IF u = player THEN agent ELSE NoUser]
MCSessionUser == [s \in Session |-> player]
MCRound == {won, beaten}
MCRoundOf == [r \in MCRound |-> CHOOSE s \in Session : TRUE]
MCOpeningPassword == [u \in Person |-> "x"]
MCPnl == [r \in MCRound |-> IF r = won THEN 2 ELSE -4]
MCDefault == [stake |-> 2, loss |-> 3]
MCOutcome == <<"away", "draw", "home">>
MCAbove == (under :> super)

\* One bet of the player, which two offers are made for.
MCPlacedBet == [user |-> player, selection |-> "red", side |-> "back", price |-> 2,
                stake |-> 3, matched |-> 2, status |-> "partial"]

VARIABLE part  \* the part that the behaviour is of

VARIABLES
  cashBalance, cashExposure, cashLedger, cashMarket, cashBets, cashOutbox, cashWorker, cashOps,
  cashFaults, cashReleases, cashPayments, cashOffers, cashLate, cashDealing, cashCovered,
  cashPaidOut

dealVars ==
  <<cashBalance, cashExposure, cashLedger, cashMarket, cashBets, cashOutbox, cashWorker,
    cashOps, cashFaults, cashReleases, cashPayments, cashOffers, cashLate, cashDealing,
    cashCovered, cashPaidOut>>

Cash == INSTANCE CashOut WITH
  User <- {player}, Key <- {1}, OpeningBalance <- [u \in {player} |-> 1], Requests <- {},
  Bet <- {1}, placed <- <<MCPlacedBet>>, Selection <- {"red", "blue"},
  OpeningExposure <- [u \in {player} |-> 1], CommissionRate <- [u \in {player} |-> 50],
  BatchSize <- 1, OutboxLimit <- 3, Ticker <- {}, Admin <- {"a"}, MaxOps <- MaxMarketOps,
  Offer <- CashOffer, Dealer <- CashDealer, Prices <- {2},
  balance <- cashBalance, exposure <- cashExposure, ledger <- cashLedger,
  market <- cashMarket, bets <- cashBets, outbox <- cashOutbox, worker <- cashWorker,
  ops <- cashOps, faults <- cashFaults, releases <- cashReleases, payments <- cashPayments,
  offers <- cashOffers, late <- cashLate, dealing <- cashDealing, covered <- cashCovered,
  paidOut <- cashPaidOut

servicesVars ==
  <<part, vars, limiterVars, tokenVars, feedVars, mirrorVars, safeVars, fraudVars,
    runnerVars, noticeVars, dealVars>>

Parts ==
  {"cashier", "cashouts", "limiter", "token", "feed", "mirror", "safe", "fraud", "runners",
   "notices"}

ServicesInit ==
  /\ part \in Parts
  /\ Init
  /\ Cash!CashInit /\ (part # "cashouts" => cashMarket = "open")
  /\ LimiterInit /\ TokensInit /\ FeedInit /\ MirrorInit
  /\ SafeInit /\ FraudInit /\ RunnersInit /\ NoticesInit

\* Every part but p stands still.
Only(p) ==
  /\ part = p /\ UNCHANGED part
  /\ p # "cashier" => UNCHANGED vars
  /\ p # "cashouts" => UNCHANGED dealVars
  /\ p # "limiter" => UNCHANGED limiterVars
  /\ p # "token" => UNCHANGED tokenVars
  /\ p # "feed" => UNCHANGED feedVars
  /\ p # "mirror" => UNCHANGED mirrorVars
  /\ p # "safe" => UNCHANGED safeVars
  /\ p # "fraud" => UNCHANGED fraudVars
  /\ p # "runners" => UNCHANGED runnerVars
  /\ p # "notices" => UNCHANGED noticeVars

ServicesNext ==
  \/ Only("cashier") /\ Next
  \/ Only("cashouts") /\ Cash!CashNext
  \/ Only("limiter") /\ LimiterNext
  \/ Only("token") /\ TokensNext
  \/ Only("feed") /\ FeedNext
  \/ Only("mirror") /\ MirrorNext
  \/ Only("safe") /\ SafeNext
  \/ Only("fraud") /\ FraudNext
  \/ Only("runners") /\ RunnersNext
  \/ Only("notices") /\ NoticesNext

CashOutHolds == Cash!CashOutHolds

\* Requests are alike, and so are offers, which get random ids.
MCSymmetry == Permutations(CashOffer) \cup Permutations(CashDealer)

ServicesSpec == ServicesInit /\ [][ServicesNext]_servicesVars

=============================================================================
