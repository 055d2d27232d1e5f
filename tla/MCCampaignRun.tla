---------------------------- MODULE MCCampaignRun ----------------------------
(* CampaignRun with the sequences the runs use. *)
EXTENDS CampaignRun

MCActions == <<"preflight", "pilot", "train">>
MCPilot   == <<"preflight", "pilot">>
MCFaults  == {"telemetry", "precheck", "submit", "poll", "journal", "kill",
              "foreign", "sla", "store", "raise"}
=============================================================================
