------------------------------- MODULE MCServers -------------------------------
(***************************************************************************)
(* One run for two parts of the purchasing backend that share no state:    *)
(* rule status changes by two processes on one data directory, and the     *)
(* page in the owner's browser.  A behaviour is one part's, the one in     *)
(* focus, while the other rests.                                           *)
(*                                                                         *)
(* The page is looked at in two ways: its table while several answers are  *)
(* under way, and its cards.                                               *)
(***************************************************************************)
EXTENDS OwnerRuleStatus, PurchasingPage

VARIABLE focus

Costs == INSTANCE PurchasingPage WITH
    Rows <- {1}, Cards <- {"final"}, FetchSize <- 1, MaxRuns <- 1, MaxLoads <- 1, MaxSaves <- 1,
    MaxSimulations <- 1, MaxLost <- 1

MCInit ==
    /\ Init
    /\ \/ focus \in {"servers", "table"} /\ PageInit
       \/ focus = "costs" /\ Costs!PageInit
    /\ focus # "servers" => registry = EmptyRegistry

ServersStep == focus = "servers" /\ Next
PageStep ==
    \/ focus = "table" /\ PageNext
    \/ focus = "costs" /\ Costs!PageNext

\* The page stops when its bounds are used up, the servers never do.
PageRests == focus # "servers" /\ UNCHANGED <<vars, pageVars>>

MCNext ==
    /\ UNCHANGED focus
    /\ \/ ServersStep /\ UNCHANGED pageVars
       \/ PageStep /\ UNCHANGED vars
       \/ PageRests

MCSpec == MCInit /\ [][MCNext]_<<focus, vars, pageVars>>
=============================================================================
