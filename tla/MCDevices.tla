------------------------------- MODULE MCDevices -------------------------------
(***************************************************************************)
(* Devices under check, one part at a time: the node tree and its timing    *)
(* (DRAMNode) for devices of seven standards, the prerequisites of the      *)
(* LPDDR devices (LPDDR), and the configuration of every standard           *)
(* (DRAMConfig).  The parts do not share any state.                         *)
(***************************************************************************)
EXTENDS DRAMNode

VARIABLES part,                                      \* the part that runs
          chan,                                      \* of LPDDR
          config, stage, organization, timing_vals   \* of DRAMConfig

(* The timing values are small, and keep the order of the presets' values   *)
(* wherever a property depends on it (the code lets a configuration         *)
(* override every one of them).                                             *)
MCV ==
  [nBL |-> 2, nCL |-> 3, nCWL |-> 2, nRCD |-> 2, nRCDRD |-> 2, nRCDWR |-> 1, nRP |-> 2,
   nRAS |-> 3, nRC |-> 5, nWR |-> 1, nRTP |-> 1, nRTPS |-> 1, nRTPL |-> 1,
   nCCD |-> 2, nCCDS |-> 1, nCCDL |-> 2, nCCDS_WR |-> 2, nCCDS_WTR |-> 4,
   nCCDL_WR |-> 2, nCCDL_WTR |-> 5, nRRD |-> 1, nRRDS |-> 1, nRRDL |-> 2,
   nWTR |-> 1, nWTRS |-> 1, nWTRL |-> 2, nFAW |-> 6, nRFC |-> 5, nRFCsb |-> 4,
   nRFM1 |-> 5, nRFMsb |-> 4, nDRFMab |-> 5, nDRFMsb |-> 4, nRREFD |-> 2,
   nVRR |-> 5, nCS |-> 1]

(* Everything takes a cycle: for what does not depend on the values.        *)
MCBrisk == [timing \in DOMAIN MCV |-> 1]

(* Mostly activations: columns are late and far apart.                      *)
MCActivates == [MCBrisk EXCEPT !.nFAW = 5, !.nRCD = 5, !.nCCD = 5]

Slow    == INSTANCE DRAMStandards WITH V <- MCV
Brisk   == INSTANCE DRAMStandards WITH V <- MCBrisk
Opening == INSTANCE DRAMStandards WITH V <- MCActivates

MCOrg ==
  [channel |-> 1, rank |-> 1, pseudochannel |-> 1, bankgroup |-> 2, bank |-> 2, row |-> 2]

MCTwoGroups == [MCOrg EXCEPT !.bank = 1]

MCTwoRanks == [MCOrg EXCEPT !.rank = 2, !.bankgroup = 1, !.bank = 1, !.row = 1]

MCFiveBanks == [MCOrg EXCEPT !.bank = 5, !.row = 1]

MCKinds ==
  {"read", "all-bank-refresh", "same-bank-refresh", "per-bank-refresh", "victim-row-refresh",
   "rfm", "same-bank-rfm", "directed-rfm", "same-bank-directed-rfm"}

MCMade(standard, values, org, kinds, maxlog) ==
  WithTree(standard @@ [V |-> values, org |-> org, maxlog |-> maxlog,
                        requested |-> kinds \cap DOMAIN standard.requests])

MCNames ==
  {"DDR3", "DDR4", "DDR4-VRR", "DDR5", "HBM", "HBM2", "HBM3", "DDR3 timed", "DDR4 timed",
   "DDR5 timed", "HBM timed", "DDR3 ranks", "DDR4 ranks", "DDR5 ranks",
   "DDR3 banks"}

(* Quick ones for the protocol: every kind of request, no time to speak of; *)
(* timed ones of two groups for the distances of commands to a bank, ones   *)
(* of two ranks for the data bus, and one of five banks for activations.    *)
MCCatalogue ==
  LET Quick(standard, org) == MCMade(standard, MCBrisk, org, MCKinds, 1)
      Timed(standard) ==
        MCMade(standard, MCV, MCTwoGroups, {"read", "write", "all-bank-refresh"}, 3)
      Bus(standard) == MCMade(standard, MCV, MCTwoRanks, {"read", "write"}, 3)
  IN  [name \in MCNames |->
         CASE name = "DDR3"           -> Quick(Brisk!DDR3, MCOrg)
           [] name = "DDR4"           -> Quick(Brisk!DDR4, MCTwoGroups)
           [] name = "DDR4-VRR"       -> Quick(Brisk!DDR4VRR, MCOrg)
           [] name = "DDR5"           -> Quick(Brisk!DDR5, MCOrg)
           [] name = "HBM"            -> Quick(Brisk!HBM, MCTwoGroups)
           [] name = "HBM2"           -> Quick(Brisk!HBM2, MCTwoGroups)
           [] name = "HBM3"           -> Quick(Brisk!HBM3, MCOrg)
           [] name = "DDR3 timed"     -> Timed(Slow!DDR3)
           [] name = "DDR4 timed"     -> Timed(Slow!DDR4)
           [] name = "DDR5 timed"     -> Timed(Slow!DDR5)
           [] name = "HBM timed"      -> Timed(Slow!HBM)
           [] name = "DDR3 ranks"     -> Bus(Slow!DDR3)
           [] name = "DDR4 ranks"     -> Bus(Slow!DDR4)
           [] name = "DDR5 ranks"     -> Bus(Slow!DDR5)
           [] name = "DDR3 banks"     -> MCMade(Opening!DDR3, MCActivates, MCFiveBanks, {"read"}, 5)]

-----------------------------------------------------------------------------
(* All of them have the constraints that the distances of TimingKept ask    *)
(* for, which is what the theorem about it assumes of a device.             *)
ASSUME CoveringAssumption == \A name \in MCNames : Covering(MCCatalogue[name])

(* The LPDDR devices, with three banks.                                     *)
L == INSTANCE LPDDR WITH Banks <- 1..3, Rows <- {0, 1}

(* The configurations: all presets but those whose density has no column in *)
(* the refresh tables or is not the one of the counts, and with each of     *)
(* them a setting of the user's.                                            *)
MCStandards ==
  {"DDR3", "DDR4", "DDR4VRR", "DDR5", "HBM", "HBM2", "HBM3", "LPDDR4", "GDDR6"}

MCUncovered == {"HBM_1Gb", "HBM2_8Gb", "HBM3_8Gb", "GDDR6_32Gb_x8", "GDDR6_32Gb_x16", "GDDR6_AiM_org"}

MCPlain == [dq |-> -2, rate |-> -2, given |-> {}]

MCGiven(timing, unit, value) ==
  [MCPlain EXCEPT !.given = {[timing |-> timing, unit |-> unit, value |-> value]}]

MCSettings ==
  {[MCPlain EXCEPT !.dq = 4], [MCPlain EXCEPT !.dq = 8], [MCPlain EXCEPT !.dq = 16],
   [MCPlain EXCEPT !.rate = 1600],
   MCGiven("nBL", "cycles", 6), MCGiven("nRFC", "ns", 100), MCGiven("nFAW", "ns", 14),
   MCGiven("tCK_ps", "cycles", 1000)}

C == INSTANCE DRAMConfig WITH
       Standards <- MCStandards, Skipped <- MCUncovered, Settings <- MCSettings,
       Garbage <- {0, 260}

-----------------------------------------------------------------------------
configvars == <<config, stage, organization, timing_vals>>

(* A part that does not run stays where it starts.                          *)
IdleTree   == device = "DDR3 ranks" /\ Init
IdleConfig == /\ config = MCPlain /\ stage = "organization"
              /\ organization = [accepted |-> FALSE] /\ timing_vals = [accepted |-> FALSE]

MCInit ==
  \/ part = "tree" /\ Init /\ L!Init /\ IdleConfig
  \/ part = "lpddr" /\ IdleTree /\ L!Init /\ IdleConfig
  \/ part = "config" /\ IdleTree /\ L!Init /\ C!Init

(* init() is done: nothing else happens to the configuration.               *)
Configured == stage \in {"ready", "error"} /\ UNCHANGED configvars

MCNext ==
  \/ part = "tree" /\ Next /\ UNCHANGED <<part, chan, configvars>>
  \/ part = "lpddr" /\ L!Next /\ UNCHANGED <<part, vars, configvars>>
  \/ part = "config" /\ (C!Next \/ Configured) /\ UNCHANGED <<part, vars, chan>>

MCSpec == MCInit /\ [][MCNext]_<<part, vars, chan, configvars>>

-----------------------------------------------------------------------------
(* The properties of the parts; see the modules that state them.            *)

(* Clocks, histories and rows of the node tree; states of the LPDDR banks,  *)
(* closed exactly when no row is recorded; numbers of a configuration, none *)
(* of them missing or negative.                                             *)
DevicesTypeOK ==
  CASE part = "tree"   -> TypeOK
    [] part = "lpddr"  -> L!TypeOK
    [] part = "config" -> C!TypeOK

(* No chain of prerequisites (PRE, ACT, or in LPDDR ACT-1, ACT-2, PRE and   *)
(* CAS) leads back to itself: whatever rows others have left open or half   *)
(* open, every request comes to its final command.                          *)
PrerequisitesEnd ==
  CASE part = "tree"   -> EveryRequestServed
    [] part = "lpddr"  -> L!ServedAlone
    [] part = "config" -> TRUE

(* set_organization, set_timing_vals: settings are rejected exactly when    *)
(* they contradict the presets, and what is accepted fits together: the     *)
(* refresh interval of the standard, a refresh that fits in it, a window    *)
(* that is longer than its distances, and the values the user gave.         *)
ConfigConsistent ==
  part = "config" =>
    /\ C!RejectedIffContradictory
    /\ C!RefreshIntervalKept
    /\ C!RefreshFits
    /\ C!WindowCoversDistances
    /\ C!GivenKept
=============================================================================
