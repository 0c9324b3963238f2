---------------------------- MODULE DRAMStandards ----------------------------
(***************************************************************************)
(* What the JEDEC standards of dram/impl/ say of a device: its levels, its  *)
(* commands and how far down the tree each one reaches, the requests it     *)
(* serves, which commands open and close rows, the timing constraints, and  *)
(* the lambdas that are its actions and prerequisites.  The levels below    *)
(* the bank (row, column) have no nodes and are left out.                   *)
(*                                                                          *)
(* V holds the timing values (m_timing_vals) in cycles, one record for all  *)
(* standards (nRFC is called nRFC1 in DDR5).                                *)
(***************************************************************************)
EXTENDS Integers, Sequences, TLC

CONSTANT V

Reads  == {"RD", "RDA"}
Writes == {"WR", "WRA"}
CAS    == Reads \cup Writes

(* TimingConsInitializer: after a command of preceding was issued in a node *)
(* of the level, one of following waits latency cycles in that node.        *)
After(level, preceding, following, latency) ==
  [level |-> level, preceding |-> preceding, following |-> following,
   latency |-> latency, window |-> 1, sibling |-> FALSE]

AfterNth(level, preceding, following, latency, window) ==
  [After(level, preceding, following, latency) EXCEPT !.window = window]

AfterSibling(level, preceding, following, latency) ==
  [After(level, preceding, following, latency) EXCEPT !.sibling = TRUE]

WriteRecovery == V.nCWL + V.nBL + V.nWR

-----------------------------------------------------------------------------
(* Constraints that every DDR standard states in the same words.            *)
DDRDataBus ==
  {After("channel", Reads, Reads, V.nBL),
   After("channel", Writes, Writes, V.nBL)}

DDRRefresh(opening, refreshing) ==
  {After("rank", {"ACT"}, refreshing, V.nRC),
   After("rank", {"PRE", "PREA"}, refreshing, V.nRP),
   After("rank", {"RDA"}, refreshing, V.nRP + V.nRTP),
   After("rank", {"WRA"}, refreshing, WriteRecovery + V.nRP),
   After("rank", {"REFab"}, opening, V.nRFC)}

DDRRank(opening, refreshing) ==
  DDRRefresh(opening, refreshing) \cup
  {AfterSibling("rank", Reads, CAS, V.nBL + V.nCS),
   AfterSibling("rank", Writes, Reads, V.nCL + V.nBL + V.nCS - V.nCWL),
   After("rank", {"RD"}, {"PREA"}, V.nRTP),
   After("rank", {"WR"}, {"PREA"}, WriteRecovery),
   AfterNth("rank", {"ACT"}, {"ACT"}, V.nFAW, 4),
   After("rank", {"ACT"}, {"PREA"}, V.nRAS),
   After("rank", {"PREA"}, {"ACT"}, V.nRP)}

DDRBank(opening) ==
  {After("bank", {"ACT"}, opening, V.nRC),
   After("bank", {"ACT"}, CAS, V.nRCD),
   After("bank", {"ACT"}, {"PRE"}, V.nRAS),
   After("bank", {"PRE"}, opening, V.nRP),
   After("bank", {"RD"}, {"PRE"}, V.nRTP),
   After("bank", {"WR"}, {"PRE"}, WriteRecovery),
   After("bank", {"RDA"}, opening, V.nRTP + V.nRP),
   After("bank", {"WRA"}, opening, WriteRecovery + V.nRP)}

(* set_actions and set_preqs: the lambdas that most standards share.  Each  *)
(* works on one level, so the level of its table is part of its name.       *)
BankActions ==
  [ACT |-> "Bank::ACT", PRE |-> "Bank::PRE", RDA |-> "Bank::PRE", WRA |-> "Bank::PRE"]

BankPreqs == [RD |-> "Bank::RequireRowOpen", WR |-> "Bank::RequireRowOpen"]

-----------------------------------------------------------------------------
(* DDR3 *)
DDR3_timingcons ==
  DDRDataBus \cup DDRRank({"ACT"}, {"REFab"}) \cup DDRBank({"ACT"}) \cup
  {After("rank", Reads, Reads, V.nCCD),
   After("rank", Writes, Writes, V.nCCD),
   After("rank", Reads, Writes, V.nCL + V.nBL + 2 - V.nCWL),
   After("rank", Writes, Reads, V.nCWL + V.nBL + V.nWTR),
   After("rank", {"ACT"}, {"ACT"}, V.nRRD)}

DDR3_actions == [PREA |-> "Rank::PREab"] @@ BankActions

DDR3_preqs == [REFab |-> "Rank::RequireAllBanksClosed"] @@ BankPreqs

DDR3 ==
  [levels   |-> <<"channel", "rank", "bank">>,
   commands |-> <<"ACT", "PRE", "PREA", "RD", "WR", "RDA", "WRA", "REFab">>,
   scopes   |-> [PRE |-> "bank", PREA |-> "rank", REFab |-> "rank"],
   opening  |-> {"ACT"},
   closing  |-> {"PRE", "PREA", "RDA", "WRA"},
   requests |-> [read |-> "RD", write |-> "WR"] @@ ("all-bank-refresh" :> "REFab"),
   timingcons |-> DDR3_timingcons, actions |-> DDR3_actions, preqs |-> DDR3_preqs]

-----------------------------------------------------------------------------
(* DDR4, and DDR4 with the victim row refresh command *)
DDR4_timingcons ==
  DDRDataBus \cup DDRRank({"ACT"}, {"REFab"}) \cup DDRBank({"ACT"}) \cup
  {After("rank", Reads, Reads, V.nCCDS),
   After("rank", Writes, Writes, V.nCCDS),
   After("rank", Reads, Writes, V.nCL + V.nBL + 2 - V.nCWL),
   After("rank", Writes, Reads, V.nCWL + V.nBL + V.nWTRS),
   After("rank", {"ACT"}, {"ACT"}, V.nRRDS),
   After("bankgroup", Reads, Reads, V.nCCDL),
   After("bankgroup", Writes, Writes, V.nCCDL),
   After("bankgroup", Writes, Reads, V.nCWL + V.nBL + V.nWTRL),
   After("bankgroup", {"ACT"}, {"ACT"}, V.nRRDL)}

DDR4_actions == [PREA |-> "Rank::PREab"] @@ BankActions

DDR4_preqs == [REFab |-> "Rank::RequireAllBanksClosed"] @@ BankPreqs

DDR4 == [DDR3 EXCEPT !.levels = <<"channel", "rank", "bankgroup", "bank">>,
                     !.timingcons = DDR4_timingcons,
                     !.actions = DDR4_actions, !.preqs = DDR4_preqs]

(* PREA -> ACT is the one constraint of an opening command that does not    *)
(* name VRR as well.                                                        *)
DDR4VRR_timingcons ==
  DDR4_timingcons \cup DDRRank({"ACT", "VRR"}, {"REFab"}) \cup DDRBank({"ACT", "VRR"}) \cup
  {After("rank", {"ACT", "VRR"}, {"ACT", "VRR"}, V.nRRDS),
   After("rank", {"VRR"}, {"REFab"}, V.nVRR),
   After("bankgroup", {"ACT", "VRR"}, {"ACT", "VRR"}, V.nRRDL),
   After("bank", {"ACT", "VRR"}, {"ACT", "VRR"}, V.nVRR)}

DDR4VRR_actions == [PREA |-> "Rank::PREab"] @@ BankActions

DDR4VRR_preqs ==
  [REFab |-> "Rank::RequireAllBanksClosed", VRR |-> "Bank::RequireBankClosed"] @@ BankPreqs

DDR4VRR ==
  [DDR4 EXCEPT !.commands = DDR4.commands \o <<"VRR">>,
               !.scopes = [VRR |-> "bank"] @@ DDR4.scopes,
               !.requests = ("victim-row-refresh" :> "VRR") @@ DDR4.requests,
               !.timingcons = DDR4VRR_timingcons,
               !.actions = DDR4VRR_actions, !.preqs = DDR4VRR_preqs]

-----------------------------------------------------------------------------
(* DDR5 *)
AllRefreshes  == {"REFab", "RFMab", "DRFMab"}
SameRefreshes == {"REFsb", "RFMsb", "DRFMsb"}

DDR5_commands ==
  <<"ACT", "PRE", "PREA", "PREsb", "RD", "WR", "RDA", "WRA", "REFab", "REFsb",
    "RFMab", "RFMsb", "DRFMab", "DRFMsb">>

DDR5_timingcons ==
  DDRDataBus \cup DDRRank({"ACT"}, AllRefreshes) \cup DDRBank({"ACT"}) \cup
  {After("channel", {"ACT"} \cup CAS, {DDR5_commands[i] : i \in DOMAIN DDR5_commands}, 2),
   After("rank", Reads, Reads, V.nCCDS),
   After("rank", Writes, Writes, V.nCCDS_WR),
   After("rank", Reads, Writes, V.nCL + V.nBL + 2 - V.nCWL + 2),
   After("rank", Writes, Reads, V.nCCDS_WTR),
   After("rank", {"ACT"}, {"ACT"}, V.nRRDS),
   After("rank", {"RFMab"}, {"ACT"}, V.nRFM1),
   After("rank", {"DRFMab"}, {"ACT"}, V.nDRFMab),
   After("bankgroup", Reads, Reads, V.nCCDL),
   After("bankgroup", Writes, Writes, V.nCCDL_WR),
   After("bankgroup", Writes, Reads, V.nCCDL_WTR),
   After("bankgroup", {"ACT"}, {"ACT"}, V.nRRDL),
   After("bank", {"WR"}, {"RDA"}, WriteRecovery - V.nRTP),
   After("bank", {"REFsb"}, {"ACT"} \cup SameRefreshes, V.nRFCsb),
   After("bank", {"RFMsb"}, {"ACT"} \cup SameRefreshes, V.nRFMsb),
   After("bank", {"DRFMsb"}, {"ACT"} \cup SameRefreshes, V.nDRFMsb)}

DDR5_actions ==
  [PREA  |-> "Rank::PREab", PREsb |-> "BankGroup::PREsb"] @@
  [cmd \in SameRefreshes |-> "BankGroup::SameBankActions"] @@ BankActions

DDR5_preqs ==
  [cmd \in AllRefreshes |-> "Rank::RequireAllBanksClosed"] @@
  [cmd \in SameRefreshes |-> "BankGroup::RequireSameBanksClosed"] @@ BankPreqs

DDR5 ==
  [levels   |-> <<"channel", "rank", "bankgroup", "bank">>,
   commands |-> DDR5_commands,
   scopes   |-> [PRE |-> "bank", PREA |-> "rank", PREsb |-> "bankgroup"] @@
                [cmd \in AllRefreshes |-> "rank"] @@ [cmd \in SameRefreshes |-> "bankgroup"],
   opening  |-> {"ACT"},
   closing  |-> {"PRE", "PREA", "PREsb", "RDA", "WRA"},
   requests |-> [read |-> "RD", write |-> "WR", rfm |-> "RFMab"] @@
                ("all-bank-refresh" :> "REFab") @@ ("same-bank-refresh" :> "REFsb") @@
                ("same-bank-rfm" :> "RFMsb") @@ ("directed-rfm" :> "DRFMab") @@
                ("same-bank-directed-rfm" :> "DRFMsb"),
   timingcons |-> DDR5_timingcons, actions |-> DDR5_actions, preqs |-> DDR5_preqs]

-----------------------------------------------------------------------------
(* The HBM generations.  Most constraints of the channel moved to the       *)
(* pseudo channel when HBM2 introduced it; the scopes of PREA and REFab did *)
(* not.  HBM3 names a refresh management command beside each refresh.       *)
HBMLevel(level, all, one) ==
  {After(level, {"ACT"}, {"ACT"}, V.nRRDS),
   AfterNth(level, {"ACT"}, {"ACT"}, V.nFAW, 4),
   After(level, {"ACT"}, one, V.nRRDS + 1),
   After(level, one, one, V.nRREFD),
   After(level, one, {"ACT"}, V.nRREFD - 1),
   After(level, Reads, Reads, V.nBL),
   After(level, Writes, Writes, V.nBL),
   After(level, Reads, Reads, V.nCCDS),
   After(level, Writes, Writes, V.nCCDS),
   After(level, Reads, Writes, V.nCL + V.nBL + 2 - V.nCWL),
   After(level, Writes, Reads, V.nCWL + V.nBL + V.nWTRS),
   After(level, {"RD"}, {"PREA"}, V.nRTPS),
   After(level, {"WR"}, {"PREA"}, WriteRecovery),
   After(level, {"ACT"}, {"PREA"}, V.nRAS),
   After(level, {"PREA"}, {"ACT"}, V.nRP),
   After(level, {"ACT"}, all, V.nRC),
   After(level, {"PRE", "PREA"}, all, V.nRP),
   After(level, {"RDA"}, all, V.nRP + V.nRTPS),
   After(level, {"WRA"}, all, WriteRecovery + V.nRP),
   After(level, all, {"ACT"} \cup one, V.nRFC)}

HBMBankGroup(one) ==
  {After("bankgroup", Reads, Reads, V.nCCDL),
   After("bankgroup", Writes, Writes, V.nCCDL),
   After("bankgroup", Writes, Reads, V.nCWL + V.nBL + V.nWTRL),
   After("bankgroup", {"ACT"}, {"ACT"}, V.nRRDL),
   After("bankgroup", {"ACT"}, one, V.nRRDL + 1),
   After("bankgroup", one, {"ACT"}, V.nRRDL - 1)}

HBMBank(one) ==
  {After("bank", {"RD"}, {"PRE"}, V.nRTPS),
   After("bank", {"ACT"}, {"ACT"}, V.nRC),
   After("bank", {"ACT"}, Reads, V.nRCDRD),
   After("bank", {"ACT"}, Writes, V.nRCDWR),
   After("bank", {"ACT"}, {"PRE"}, V.nRAS),
   After("bank", {"PRE"}, {"ACT"}, V.nRP),
   After("bank", {"RD"}, {"PRE"}, V.nRTPL),
   After("bank", {"WR"}, {"PRE"}, WriteRecovery),
   After("bank", {"RDA"}, {"ACT"} \cup one, V.nRTPL + V.nRP),
   After("bank", {"WRA"}, {"ACT"} \cup one, WriteRecovery + V.nRP)}

TwoCycleACT(all, one) ==
  {After("channel", {"ACT"}, {"ACT", "PRE", "PREA"} \cup all \cup one, 2)}

HBM_timingcons ==
  TwoCycleACT({"REFab"}, {"REFsb"}) \cup HBMLevel("channel", {"REFab"}, {"REFsb"})
  \cup HBMBankGroup({"REFsb"}) \cup HBMBank({"REFsb"})

HBM_actions == [PREA |-> "Channel::PREab"] @@ BankActions

HBM_preqs ==
  [REFab |-> "Channel::RequireAllBanksClosed", REFsb |-> "Bank::RequireBankClosed"]
  @@ BankPreqs

HBM ==
  [levels   |-> <<"channel", "bankgroup", "bank">>,
   commands |-> <<"ACT", "PRE", "PREA", "RD", "WR", "RDA", "WRA", "REFab", "REFsb">>,
   scopes   |-> [PRE |-> "bank", PREA |-> "channel", REFab |-> "channel", REFsb |-> "bank"],
   opening  |-> {"ACT"},
   closing  |-> {"PRE", "PREA", "RDA", "WRA"},
   requests |-> [read |-> "RD", write |-> "WR"] @@ ("all-bank-refresh" :> "REFab") @@
                ("per-bank-refresh" :> "REFsb"),
   timingcons |-> HBM_timingcons, actions |-> HBM_actions, preqs |-> HBM_preqs]

HBM2_timingcons ==
  TwoCycleACT({"REFab"}, {"REFsb"}) \cup HBMLevel("pseudochannel", {"REFab"}, {"REFsb"})
  \cup HBMBankGroup({"REFsb"}) \cup HBMBank({"REFsb"})

HBM2_actions == [PREA |-> "Channel::PREab"] @@ BankActions

HBM2_preqs ==
  [REFab |-> "Channel::RequireAllBanksClosed", REFsb |-> "Bank::RequireBankClosed"]
  @@ BankPreqs

HBM2 == [HBM EXCEPT !.levels = <<"channel", "pseudochannel", "bankgroup", "bank">>,
                    !.timingcons = HBM2_timingcons,
                    !.actions = HBM2_actions, !.preqs = HBM2_preqs]

HBM3_timingcons ==
  TwoCycleACT({"REFab", "RFMab"}, {"REFsb", "RFMsb"})
  \cup HBMLevel("pseudochannel", {"REFab", "RFMab"}, {"REFsb", "RFMsb"})
  \cup HBMBankGroup({"REFsb", "RFMsb"}) \cup HBMBank({"REFsb", "RFMsb"})

HBM3_actions == [PREA |-> "Channel::PREab"] @@ BankActions

HBM3_preqs ==
  [REFab |-> "Channel::RequireAllBanksClosed", REFsb |-> "Bank::RequireBankClosed"]
  @@ BankPreqs

HBM3 == [HBM2 EXCEPT !.commands = HBM2.commands \o <<"RFMab", "RFMsb">>,
                     !.scopes = [RFMab |-> "channel", RFMsb |-> "bank"] @@ HBM2.scopes,
                     !.requests = ("all-bank-rfm" :> "RFMab") @@ ("per-bank-rfm" :> "RFMsb")
                                  @@ HBM2.requests,
                     !.timingcons = HBM3_timingcons,
                     !.actions = HBM3_actions, !.preqs = HBM3_preqs]
=============================================================================
