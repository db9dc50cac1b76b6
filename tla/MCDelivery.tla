----------------------------- MODULE MCDelivery -----------------------------
(* One user with two signatures; two states of the inputs, with
   different campaigns running. *)
EXTENDS GmailPush

MCIds == {1, 2}
MCDesigns == {1, 2}
MCInputs == {1, 2}
MCCampaignsOf == [v \in MCInputs |-> v]
=============================================================================
