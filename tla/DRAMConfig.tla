------------------------------ MODULE DRAMConfig ------------------------------
(***************************************************************************)
(* init() of a device: the organisation is set, then the timing values are, *)
(* and either may throw a ConfigurationError.  All standards of dram/impl/  *)
(* are configured, each with its presets and with at most one setting of    *)
(* the user on top of them.                                                 *)
(***************************************************************************)
EXTENDS DRAMPresets

CONSTANTS
  Standards,   \* the standards to configure
  Skipped,     \* organisation presets that are left out
  Settings,    \* the user's settings: records of dq, rate and given
  Garbage      \* what may lie in front of a table, in ns

VARIABLES
  config,      \* the configuration of the device
  stage,       \* the next step of init(), or its outcome
  organization,  \* m_organization
  timing_vals    \* m_timing_vals

vars == <<config, stage, organization, timing_vals>>

org_presets ==
  [DDR3 |-> DDR3_org_presets, DDR4 |-> DDR4_org_presets, DDR4VRR |-> DDR4VRR_org_presets,
   DDR5 |-> DDR5_org_presets, HBM |-> HBM_org_presets, HBM2 |-> HBM2_org_presets,
   HBM3 |-> HBM3_org_presets, LPDDR4 |-> LPDDR4_org_presets, LPDDR5 |-> LPDDR5_org_presets,
   GDDR6 |-> GDDR6_org_presets]

timing_presets ==
  [DDR3 |-> DDR3_timing_presets, DDR4 |-> DDR4_timing_presets,
   DDR4VRR |-> DDR4VRR_timing_presets, DDR5 |-> DDR5_timing_presets,
   HBM |-> HBM_timing_presets, HBM2 |-> HBM2_timing_presets, HBM3 |-> HBM3_timing_presets,
   LPDDR4 |-> LPDDR4_timing_presets, LPDDR5 |-> LPDDR5_timing_presets,
   GDDR6 |-> GDDR6_timing_presets]

(* What the user adds to the presets: nothing, a setting, or no timing      *)
(* preset at all.                                                           *)
Plain == [dq |-> Absent, rate |-> Absent, given |-> {}]

Configs(s) ==
  {[org |-> o, timing |-> t] @@ x :
     o \in DOMAIN org_presets[s] \ Skipped, t \in DOMAIN timing_presets[s] \cup {NoPreset},
     x \in Settings \cup {Plain}}

OrganizationOf(s, c) ==
  CASE s = "DDR3" -> DDR3_set_organization(c)
    [] s = "DDR4" -> DDR4_set_organization(c)
    [] s = "DDR4VRR" -> DDR4VRR_set_organization(c)
    [] s = "DDR5" -> DDR5_set_organization(c)
    [] s = "HBM" -> HBM_set_organization(c)
    [] s = "HBM2" -> HBM2_set_organization(c)
    [] s = "HBM3" -> HBM3_set_organization(c)
    [] s = "LPDDR4" -> LPDDR4_set_organization(c)
    [] s = "LPDDR5" -> LPDDR5_set_organization(c)
    [] s = "GDDR6" -> GDDR6_set_organization(c)

TimingValsOf(s, c, org, garbage) ==
  CASE s = "DDR3" -> DDR3_set_timing_vals(c, org, garbage)
    [] s = "DDR4" -> DDR4_set_timing_vals(c, org, garbage)
    [] s = "DDR4VRR" -> DDR4VRR_set_timing_vals(c, org, garbage)
    [] s = "DDR5" -> DDR5_set_timing_vals(c, org, garbage)
    [] s = "HBM" -> HBM_set_timing_vals(c, org, garbage)
    [] s = "HBM2" -> HBM2_set_timing_vals(c, org, garbage)
    [] s = "HBM3" -> HBM3_set_timing_vals(c, org, garbage)
    [] s = "LPDDR4" -> LPDDR4_set_timing_vals(c, org, garbage)
    [] s = "LPDDR5" -> LPDDR5_set_timing_vals(c, org, garbage)
    [] s = "GDDR6" -> GDDR6_set_timing_vals(c, org, garbage)

Init ==
  /\ \E s \in Standards : \E c \in Configs(s) : config = c @@ [std |-> s]
  /\ stage = "organization"
  /\ organization = Rejected
  /\ timing_vals = Rejected

SetOrganization ==
  /\ stage = "organization"
  /\ organization' = OrganizationOf(config.std, config)
  /\ stage' = IF organization'.accepted THEN "timing" ELSE "error"
  /\ UNCHANGED <<config, timing_vals>>

SetTimingVals ==
  /\ stage = "timing"
  /\ \E garbage \in Garbage :
       timing_vals' = TimingValsOf(config.std, config, organization.is, garbage)
  /\ stage' = IF timing_vals'.accepted THEN "ready" ELSE "error"
  /\ UNCHANGED <<config, organization>>

Next == SetOrganization \/ SetTimingVals

Spec == Init /\ [][Next]_vars

-----------------------------------------------------------------------------
Ready == stage = "ready"
vals  == timing_vals.is
Preset == timing_presets[config.std][config.timing]

(* The base refresh interval of each standard in ns, from the comments and  *)
(* the columns nREFI of the sources.                                        *)
tREFI == [DDR3 |-> 7800, DDR4 |-> 7800, DDR4VRR |-> 7800, DDR5 |-> 3900, HBM |-> 3900,
          HBM2 |-> 3900, HBM3 |-> 3900, LPDDR4 |-> 3906, LPDDR5 |-> 3906, GDDR6 |-> 7800]

(* Every step of init() leaves a device that is rejected or has all its     *)
(* numbers, none of them negative.                                          *)
TypeOK ==
  /\ stage \in {"organization", "timing", "ready", "error"}
  /\ Ready => \A t \in DOMAIN vals : vals[t] \in Nat

(* set_organization, set_timing_vals: a device is rejected exactly when the *)
(* user's settings contradict the presets (another chip width, another      *)
(* rate) or leave the timings unset; every pair of presets is accepted.     *)
Contradictory ==
  \/ config.timing = NoPreset
  \/ config.rate # Absent
  \/ config.dq \notin {Absent, org_presets[config.std][config.org].dq}

RejectedIffContradictory ==
  /\ stage = "error" => Contradictory
  /\ Ready => ~Contradictory

(* set_timing_vals: measured in the clock of the preset, the refreshes of a *)
(* device are as far apart as its standard says, up to the rounding (a      *)
(* clock, and 0.3% in DDR5).                                                *)
RefreshIntervalKept ==
  Ready /\ config.given = {} =>
    LET interval == vals.nREFI * Preset.tCK_ps
        base     == 1000 * tREFI[config.std]
    IN interval \in (base - base \div 250) .. (base + Preset.tCK_ps)

(* set_timing_vals: a refresh takes a time that is known (the tables have a *)
(* column for the density of the chip) and less than the refresh interval,  *)
(* so the device has time to serve requests.                                *)
RefreshFits ==
  Ready /\ config.given = {} => 0 < vals.nRFC /\ 2 * vals.nRFC < vals.nREFI

(* The tables of secondary timings: the window of four activations is never *)
(* shorter than four of the distances between two activations, which would  *)
(* make it void.                                                            *)
WindowCoversDistances == Ready /\ config.given = {} => 4 * vals.nRRDS <= vals.nFAW

(* set_timing_vals: a timing that the user gives is the one the device has; *)
(* a time in ns is not shortened by more than the rounding allows.          *)
GivenKept ==
  Ready =>
    \A g \in config.given :
      g.timing \in DOMAIN vals \ {"rate", "tCK_ps"} =>
        LET got == vals[g.timing]
        IN IF g.unit = "cycles" THEN got = g.value
           ELSE /\ 1000 * got * vals.tCK_ps >= 997 * 1000 * g.value - 26 * vals.tCK_ps
                /\ (got - 1) * vals.tCK_ps <= 1000 * g.value
=============================================================================
