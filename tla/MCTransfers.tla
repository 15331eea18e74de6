---------------------------- MODULE MCTransfers ----------------------------
(* One node's ledger, in lanes that `scenario` fixes in the initial state: *)
(* transfers (two rivals for a nonce, and a sender that lacks funds until  *)
(* it is paid), a sender that stakes, claims and unstakes, and a           *)
(* checkpoint rolled back in favour of a rival.                            *)
EXTENDS MCLedger

VARIABLE scenario

S == INSTANCE Ledger WITH
  Sent <- 5..7, PoolCap <- 2, MaxHeight <- 1, InitialRewards <- MCRewards

R == INSTANCE Ledger WITH
  Sent <- 1..2, PoolCap <- 2, MaxHeight <- 1, MaxRollbacks <- 1, Variants <- {1, 2},
  InitialBalance <- MCAmpleBalance

laneVars == <<scenario, vars>>

LanesInit ==
  \/ scenario = "transfers" /\ Init
  \/ scenario = "staking" /\ S!Init
  \/ scenario = "rollback" /\ R!Init

LanesNext ==
  \/ scenario = "transfers" /\ Next /\ UNCHANGED scenario
  \/ scenario = "staking" /\ S!Next /\ UNCHANGED scenario
  \/ scenario = "rollback" /\ R!Next /\ UNCHANGED scenario

LanesSpec == LanesInit /\ [][LanesNext]_laneVars

(* See Conservation of Ledger; a rollback gives back neither what was      *)
(* burned nor what was claimed.                                            *)
NothingMinted ==
  /\ scenario = "transfers" => Conservation
  /\ scenario = "staking" => S!Conservation
=============================================================================
