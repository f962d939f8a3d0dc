------------------------------ MODULE MCCampaign ------------------------------
(***************************************************************************)
(* The commands on a campaign, for its configurations: one command that is *)
(* started again on two trials, or two commands at once on a single trial, *)
(* each with one or two workers and with fail_fast or without.             *)
(***************************************************************************)
EXTENDS CampaignRun

CONSTANTS c1, c2, d1, d2
=============================================================================
