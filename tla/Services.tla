------------------------------ MODULE Services ------------------------------
(***************************************************************************)
(* The services around the task engine, side by side: the leases of LARM,  *)
(* the models Ollama holds, the routing of requests, the slots of the      *)
(* calls and the probes, the channel of an MCP server and the copies of    *)
(* the state.                                                              *)
(*                                                                         *)
(* They share no state in the model, so whatever happens to one of them    *)
(* in a run of all happens to it alone: `part` chooses, once, whose steps  *)
(* are taken.                                                              *)
(***************************************************************************)
EXTENDS LarmProperties, OllamaResidency, ModelRouting, InferenceSlots, McpChannel, StateBackup

VARIABLE part

Parts == {"leases", "residency", "routing", "slots", "channel", "backup"}

Init ==
  /\ part \in Parts
  /\ LarmInit /\ ResidencyInit /\ RoutingInit /\ SlotsInit /\ ChannelInit /\ BackupInit
  /\ part # "residency" => loaded = {} /\ ~unloads

LeasesStep ==
  /\ part = "leases" /\ LarmNext
  /\ UNCHANGED <<part, residencyVars, routingVars, slotsVars, channelVars, backupVars>>
ResidencyStep ==
  /\ part = "residency" /\ ResidencyNext
  /\ UNCHANGED <<part, larmVars, routingVars, slotsVars, channelVars, backupVars>>
RoutingStep ==
  /\ part = "routing" /\ RoutingNext
  /\ UNCHANGED <<part, larmVars, residencyVars, slotsVars, channelVars, backupVars>>
SlotsStep ==
  /\ part = "slots" /\ SlotsNext
  /\ UNCHANGED <<part, larmVars, residencyVars, routingVars, channelVars, backupVars>>
ChannelStep ==
  /\ part = "channel" /\ ChannelNext
  /\ UNCHANGED <<part, larmVars, residencyVars, routingVars, slotsVars, backupVars>>
BackupStep ==
  /\ part = "backup" /\ BackupNext
  /\ UNCHANGED <<part, larmVars, residencyVars, routingVars, slotsVars, channelVars>>

ServicesNext ==
  \/ LeasesStep \/ ResidencyStep \/ RoutingStep \/ SlotsStep \/ ChannelStep \/ BackupStep

ServicesVars ==
  <<part, larmVars, residencyVars, routingVars, slotsVars, channelVars, backupVars>>

Spec == Init /\ [][ServicesNext]_ServicesVars
=============================================================================
