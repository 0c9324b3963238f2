----------------------------- MODULE DRAMPresets -----------------------------
(***************************************************************************)
(* How the devices of dram/impl/ turn a configuration into an organisation  *)
(* (set_organization) and into timing values (set_timing_vals), with the    *)
(* presets of each standard.  A configuration c has the fields org, timing  *)
(* (names of presets), dq, rate (overrides, which may be Absent) and given  *)
(* (the timings that the user states, in cycles or in nanoseconds).         *)
(*                                                                          *)
(* Of the columns of a timing preset the clock, the burst, the read latency *)
(* and those that depend on other settings are kept: the activation         *)
(* distances and the refresh timings (nRRD of DDR3 and LPDDR is called      *)
(* nRRDS; nRFC1 of DDR5 and nRFCab of LPDDR are called nRFC).               *)
(***************************************************************************)
EXTENDS Integers, Sequences, TLC, SequencesExt

Absent   == -2
NoPreset == "none"
Unset    == -1

Rejected == [accepted |-> FALSE]

Accepted(r) == [accepted |-> TRUE, is |-> r]

(* The position of a case of a switch; 0 for its default, which is -1 in    *)
(* the code.                                                                *)
CaseOf(key, cases) ==
  IF key \in ToSet(cases) THEN CHOOSE i \in DOMAIN cases : cases[i] = key ELSE 0

(* What is read from a table at [id]: in front of it lies garbage.          *)
Entry(table, id, garbage) == IF id = 0 THEN garbage ELSE table[id]

(* nCK = ((t_ps * 1000 / tCK_ps) + 974) / 1000, without leaving the range   *)
(* of TLC's integers; a tCK_ps below zero is a huge divisor in uint64_t.    *)
Scaled(t_ps, factor, tCK_ps) ==
  factor * (t_ps \div tCK_ps) + (factor * (t_ps % tCK_ps)) \div tCK_ps

(* Mutant: rounds down.                                                     *)
RoundedDown(t_ns, tCK_ps) ==
  IF tCK_ps <= 0 THEN 0 ELSE Scaled(1000 * t_ns, 1000, tCK_ps) \div 1000

JEDEC_rounding(t_ns, tCK_ps) ==
  IF tCK_ps <= 0 THEN 0 ELSE (Scaled(1000 * t_ns, 1000, tCK_ps) + 974) \div 1000

JEDEC_rounding_DDR5(t_ns, tCK_ps) ==
  IF tCK_ps <= 0 THEN 1 ELSE (Scaled(1000 * t_ns, 997, tCK_ps) + 1000) \div 1000

Rounded(rounding, t_ns, tCK_ps) ==
  IF rounding = "JEDEC_rounding" THEN JEDEC_rounding(t_ns, tCK_ps)
  ELSE JEDEC_rounding_DDR5(t_ns, tCK_ps)

(* 1E6 / (rate / 2): a rate below 2 divides by zero, and the conversion of  *)
(* infinity to int gives the smallest one.                                  *)
ClockPeriod(rate) == IF rate < 2 THEN -2147483647 - 1 ELSE 1000000 \div (rate \div 2)

-----------------------------------------------------------------------------
(* The steps that all standards share.                                      *)
Org(density, dq, count) == [density |-> density, dq |-> dq, count |-> count]

(* The chip density in Mb; the division by 2^20 is made in two halves.      *)
Density(org, counted) ==
  LET others == FoldSet(LAMBDA l, p : p * org.count[l], org.dq, counted)
  IN (((org.count.row * org.count.column) \div 1024) * others) \div 1024

set_organization(c, presets, counted) ==
  IF c.org \notin DOMAIN presets THEN Rejected
  ELSE LET org == IF c.dq = Absent THEN presets[c.org]
                  ELSE [presets[c.org] EXCEPT !.dq = c.dq]
       IN IF Density(org, counted) = org.density THEN Accepted(org) ELSE Rejected

(* The timing preset, or every timing unset, and the rate.                  *)
Loaded(c, presets) ==
  LET vals == IF c.timing = NoPreset
              THEN [t \in DOMAIN presets[CHOOSE p \in DOMAIN presets : TRUE] |-> Unset]
              ELSE presets[c.timing]
  IN IF c.rate = Absent THEN vals ELSE [vals EXCEPT !.rate = c.rate]

(* The user's value replaces any timing but the first and the last one; the *)
(* code names one of the two roundings.                                     *)
Overridden(c, vals, rounding) ==
  [t \in DOMAIN vals |->
     IF t \in {"rate", "tCK_ps"} \/ \A g \in c.given : g.timing # t THEN vals[t]
     ELSE LET g == CHOOSE g \in c.given : g.timing = t
          IN IF g.unit = "cycles" THEN g.value ELSE Rounded(rounding, g.value, vals.tCK_ps)]

Checked(c, presets, vals) ==
  IF \/ c.timing \notin DOMAIN presets \cup {NoPreset}
     \/ c.timing # NoPreset /\ c.rate # Absent
     \/ \E t \in DOMAIN vals : vals[t] = Unset
  THEN Rejected ELSE Accepted(vals)

-----------------------------------------------------------------------------
DDR3_org_presets ==
  LET O(Gb, dq, row, col) == Org(1024 * Gb, dq, [bank |-> 8, row |-> 2^row, column |-> 2^col])
  IN ("DDR3_1Gb_x4" :> O(1, 4, 14, 11)) @@ ("DDR3_1Gb_x8" :> O(1, 8, 14, 10))
     @@ ("DDR3_1Gb_x16" :> O(1, 16, 13, 10))
     @@ ("DDR3_2Gb_x4" :> O(2, 4, 15, 11)) @@ ("DDR3_2Gb_x8" :> O(2, 8, 15, 10))
     @@ ("DDR3_2Gb_x16" :> O(2, 16, 14, 10))
     @@ ("DDR3_4Gb_x4" :> O(4, 4, 16, 11)) @@ ("DDR3_4Gb_x8" :> O(4, 8, 16, 10))
     @@ ("DDR3_4Gb_x16" :> O(4, 16, 15, 10))
     @@ ("DDR3_8Gb_x4" :> O(8, 4, 17, 11)) @@ ("DDR3_8Gb_x8" :> O(8, 8, 17, 10))
     @@ ("DDR3_8Gb_x16" :> O(8, 16, 16, 10))

DDR3_timing_presets ==
  LET T(rate, nCL, tCK_ps) ==
        [rate |-> rate, nBL |-> 4, nCL |-> nCL, nRRDS |-> Unset, nFAW |-> Unset,
         nRFC |-> Unset, nREFI |-> Unset, tCK_ps |-> tCK_ps]
  IN ("DDR3_800D" :> T(800, 5, 2500)) @@ ("DDR3_800E" :> T(800, 5, 2500))
     @@ ("DDR3_1066E" :> T(1066, 6, 1875)) @@ ("DDR3_1066F" :> T(1066, 7, 1875))
     @@ ("DDR3_1066G" :> T(1066, 8, 1875)) @@ ("DDR3_1333G" :> T(1333, 8, 1500))
     @@ ("DDR3_1333H" :> T(1333, 9, 1500)) @@ ("DDR3_1600H" :> T(1600, 9, 1250))
     @@ ("DDR3_1600J" :> T(1600, 10, 1250)) @@ ("DDR3_1600K" :> T(1600, 11, 1250))
     @@ ("DDR3_1866K" :> T(1866, 11, 1071)) @@ ("DDR3_1866L" :> T(1866, 12, 1071))
     @@ ("DDR3_2133L" :> T(2133, 12, 937)) @@ ("DDR3_2133M" :> T(2133, 13, 937))

DDR3_set_organization(c) ==
  set_organization(c, DDR3_org_presets, {"bank"})

(* The tables are indexed by dq_id (x4, x8, x16) and rate_id.               *)
DDR3_secondary(org, load) ==
  LET dq_id == CaseOf(org.dq, <<4, 8, 16>>)
      rate_id == CaseOf(load.rate, <<800, 1066, 1333, 1600, 1866, 2133>>)
      nRRD_TABLE == <<<<4, 4, 4, 5, 5, 6>>, <<4, 4, 4, 5, 5, 6>>, <<4, 6, 5, 6, 6, 7>>>>
      nFAW_TABLE == <<<<16, 20, 20, 24, 26, 27>>, <<16, 20, 20, 24, 26, 27>>,
                      <<20, 27, 30, 32, 33, 34>>>>
  IN IF dq_id = 0 \/ rate_id = 0 THEN load
     ELSE [load EXCEPT !.nRRDS = nRRD_TABLE[dq_id][rate_id], !.nFAW = nFAW_TABLE[dq_id][rate_id]]

DDR3_set_timing_vals(c, org, garbage) ==
  LET load == Loaded(c, DDR3_timing_presets)
      tCK_ps == ClockPeriod(load.rate)
      density_id == CaseOf(org.density, <<1024, 2048, 4096, 8192>>)
      vals == [DDR3_secondary(org, load) EXCEPT
                 !.tCK_ps = tCK_ps,
                 !.nRFC = JEDEC_rounding(Entry(<<110, 160, 260, 350>>, density_id, garbage), tCK_ps),
                 !.nREFI = JEDEC_rounding(7800, tCK_ps)]
  IN Checked(c, DDR3_timing_presets, Overridden(c, vals, "JEDEC_rounding"))

-----------------------------------------------------------------------------
DDR4_org_presets ==
  LET O(Gb, dq, bg, row) ==
        Org(1024 * Gb, dq, [bankgroup |-> bg, bank |-> 4, row |-> 2^row, column |-> 2^10])
  IN ("DDR4_2Gb_x4" :> O(2, 4, 4, 15)) @@ ("DDR4_2Gb_x8" :> O(2, 8, 4, 14))
     @@ ("DDR4_2Gb_x16" :> O(2, 16, 2, 14))
     @@ ("DDR4_4Gb_x4" :> O(4, 4, 4, 16)) @@ ("DDR4_4Gb_x8" :> O(4, 8, 4, 15))
     @@ ("DDR4_4Gb_x16" :> O(4, 16, 2, 15))
     @@ ("DDR4_8Gb_x4" :> O(8, 4, 4, 17)) @@ ("DDR4_8Gb_x8" :> O(8, 8, 4, 16))
     @@ ("DDR4_8Gb_x16" :> O(8, 16, 2, 16))
     @@ ("DDR4_16Gb_x4" :> O(16, 4, 4, 18)) @@ ("DDR4_16Gb_x8" :> O(16, 8, 4, 17))
     @@ ("DDR4_16Gb_x16" :> O(16, 16, 2, 17))

DDR4_timing_presets ==
  LET T(rate, nCL, tCK_ps) ==
        [rate |-> rate, nBL |-> 4, nCL |-> nCL, nRRDS |-> Unset, nRRDL |-> Unset,
         nFAW |-> Unset, nRFC |-> Unset, nREFI |-> Unset, tCK_ps |-> tCK_ps]
  IN ("DDR4_1600J" :> T(1600, 10, 1250)) @@ ("DDR4_1600K" :> T(1600, 11, 1250))
     @@ ("DDR4_1600L" :> T(1600, 12, 1250)) @@ ("DDR4_1866L" :> T(1866, 12, 1071))
     @@ ("DDR4_1866M" :> T(1866, 13, 1071)) @@ ("DDR4_1866N" :> T(1866, 14, 1071))
     @@ ("DDR4_2133N" :> T(2133, 14, 937)) @@ ("DDR4_2133P" :> T(2133, 15, 937))
     @@ ("DDR4_2133R" :> T(2133, 16, 937)) @@ ("DDR4_2400P" :> T(2400, 15, 833))
     @@ ("DDR4_2400R" :> T(2400, 16, 833)) @@ ("DDR4_2400U" :> T(2400, 17, 833))
     @@ ("DDR4_2400T" :> T(2400, 18, 833)) @@ ("DDR4_2666T" :> T(2666, 17, 750))
     @@ ("DDR4_2666U" :> T(2666, 18, 750)) @@ ("DDR4_2666V" :> T(2666, 19, 750))
     @@ ("DDR4_2666W" :> T(2666, 20, 750)) @@ ("DDR4_2933V" :> T(2933, 19, 682))
     @@ ("DDR4_2933W" :> T(2933, 20, 682)) @@ ("DDR4_2933Y" :> T(2933, 21, 682))
     @@ ("DDR4_2933AA" :> T(2933, 22, 682)) @@ ("DDR4_3200W" :> T(3200, 20, 625))
     @@ ("DDR4_3200AA" :> T(3200, 22, 625)) @@ ("DDR4_3200AC" :> T(3200, 24, 625))

DDR4_set_organization(c) ==
  set_organization(c, DDR4_org_presets, {"bankgroup", "bank"})

DDR4_secondary(org, load) ==
  LET dq_id == CaseOf(org.dq, <<4, 8, 16>>)
      rate_id == CaseOf(load.rate, <<1600, 1866, 2133, 2400, 2666, 2933, 3200>>)
      nRRDS_TABLE == <<<<4, 4, 4, 4, 4, 4, 4>>, <<4, 4, 4, 4, 4, 4, 4>>, <<5, 5, 6, 7, 8, 8, 9>>>>
      nRRDL_TABLE == <<<<5, 5, 6, 6, 7, 8, 8>>, <<5, 5, 6, 6, 7, 8, 8>>, <<6, 6, 7, 8, 9, 10, 11>>>>
      nFAW_TABLE == <<<<16, 16, 16, 16, 16, 16, 16>>, <<20, 22, 23, 26, 28, 31, 34>>,
                      <<28, 28, 32, 36, 40, 44, 48>>>>
  IN IF dq_id = 0 \/ rate_id = 0 THEN load
     ELSE [load EXCEPT !.nRRDS = nRRDS_TABLE[dq_id][rate_id],
                       !.nRRDL = nRRDL_TABLE[dq_id][rate_id],
                       !.nFAW = nFAW_TABLE[dq_id][rate_id]]

DDR4_refresh(org, vals, garbage) ==
  LET density_id == CaseOf(org.density, <<2048, 4096, 8192, 16384>>)
  IN [vals EXCEPT
        !.nRFC = JEDEC_rounding(Entry(<<160, 260, 360, 550>>, density_id, garbage), vals.tCK_ps),
        !.nREFI = JEDEC_rounding(7800, vals.tCK_ps)]

DDR4_set_timing_vals(c, org, garbage) ==
  LET load == Loaded(c, DDR4_timing_presets)
      vals == [DDR4_secondary(org, load) EXCEPT !.tCK_ps = ClockPeriod(load.rate)]
  IN Checked(c, DDR4_timing_presets,
             Overridden(c, DDR4_refresh(org, vals, garbage), "JEDEC_rounding"))

-----------------------------------------------------------------------------
(* The presets have the names and values of DDR4, and the column nVRR.      *)
DDR4VRR_org_presets == DDR4_org_presets

DDR4VRR_timing_presets ==
  [p \in DOMAIN DDR4_timing_presets |-> ("nVRR" :> Unset) @@ DDR4_timing_presets[p]]

DDR4VRR_set_organization(c) ==
  set_organization(c, DDR4VRR_org_presets, {"bankgroup", "bank"})

(* VRR_radius has its default of 2, 70 ns each.                             *)
DDR4VRR_set_timing_vals(c, org, garbage) ==
  LET load == Loaded(c, DDR4VRR_timing_presets)
      tCK_ps == ClockPeriod(load.rate)
      vals == [DDR4_secondary(org, load) EXCEPT
                 !.tCK_ps = tCK_ps, !.nVRR = JEDEC_rounding(70 * 2, tCK_ps)]
  IN Checked(c, DDR4VRR_timing_presets,
             Overridden(c, DDR4_refresh(org, vals, garbage), "JEDEC_rounding"))

-----------------------------------------------------------------------------
DDR5_org_presets ==
  LET O(Gb, dq, bg, bank, row, col) ==
        Org(1024 * Gb, dq, [bankgroup |-> bg, bank |-> bank, row |-> 2^row, column |-> 2^col])
  IN ("DDR5_8Gb_x4" :> O(8, 4, 8, 2, 16, 11)) @@ ("DDR5_8Gb_x8" :> O(8, 8, 8, 2, 16, 10))
     @@ ("DDR5_8Gb_x16" :> O(8, 16, 4, 2, 16, 10))
     @@ ("DDR5_16Gb_x4" :> O(16, 4, 8, 4, 16, 11)) @@ ("DDR5_16Gb_x8" :> O(16, 8, 8, 4, 16, 10))
     @@ ("DDR5_16Gb_x16" :> O(16, 16, 4, 4, 16, 10))
     @@ ("DDR5_32Gb_x4" :> O(32, 4, 8, 4, 17, 11)) @@ ("DDR5_32Gb_x8" :> O(32, 8, 8, 4, 17, 10))
     @@ ("DDR5_32Gb_x16" :> O(32, 16, 4, 4, 17, 10))

DDR5_timing_presets ==
  LET T(nCL) ==
        [rate |-> 3200, nBL |-> 8, nCL |-> nCL, nCCDL_WR |-> 16, nRRDS |-> 8, nRRDL |-> Unset,
         nFAW |-> Unset, nRFC |-> Unset, nRFC2 |-> Unset, nRFCsb |-> Unset, nREFI |-> Unset,
         nRFM1 |-> Unset, nRFM2 |-> Unset, nRFMsb |-> Unset, nDRFMab |-> Unset,
         nDRFMsb |-> Unset, tCK_ps |-> 625]
  IN ("DDR5_3200AN" :> T(24)) @@ ("DDR5_3200BN" :> T(26)) @@ ("DDR5_3200C" :> T(28))

DDR5_set_organization(c) ==
  set_organization(c, DDR5_org_presets, {"bankgroup", "bank"})

(* nCCD_L_WR2_TABLE is read for x4 chips whatever the rate is.              *)
DDR5_secondary(org, load, garbage) ==
  LET dq_id == CaseOf(org.dq, <<4, 8, 16>>)
      rate_id == CaseOf(load.rate, <<3200>>)
      known == IF dq_id = 0 \/ rate_id = 0 THEN load
               ELSE [load EXCEPT !.nRRDL = 5, !.nFAW = <<40, 32, 32>>[dq_id]]
  IN IF dq_id = 1 THEN [known EXCEPT !.nCCDL_WR = Entry(<<32>>, rate_id, garbage)] ELSE known

(* The RFM timings are copied from the refresh timings before the user's    *)
(* value is looked up; the bounded refresh count m_BRC has its default 2.   *)
DDR5_set_timing_vals(c, org, garbage) ==
  LET load == Loaded(c, DDR5_timing_presets)
      tCK_ps == ClockPeriod(load.rate)
      density_id == CaseOf(org.density, <<8192, 16384, 32768>>)
      Cycles(table) == JEDEC_rounding_DDR5(Entry(table, density_id, garbage), tCK_ps)
      vals == [DDR5_secondary(org, load, garbage) EXCEPT
                 !.tCK_ps = tCK_ps,
                 !.nRFC = Cycles(<<195, 295, 410>>), !.nRFM1 = Cycles(<<195, 295, 410>>),
                 !.nRFC2 = Cycles(<<130, 160, 220>>), !.nRFM2 = Cycles(<<130, 160, 220>>),
                 !.nRFCsb = Cycles(<<115, 130, 190>>), !.nRFMsb = Cycles(<<115, 130, 190>>),
                 !.nREFI = JEDEC_rounding_DDR5(3900, tCK_ps),
                 !.nDRFMab = 2 * Cycles(<<70, 70, 70>>), !.nDRFMsb = 2 * Cycles(<<60, 60, 60>>)]
  IN Checked(c, DDR5_timing_presets, Overridden(c, vals, "JEDEC_rounding_DDR5"))

-----------------------------------------------------------------------------
(* The organisations of the HBM generations, per channel; HBM has no pseudo *)
(* channels, which is one of them here.                                     *)
HBMOrg(density, pseudo, bank, row, col) ==
  Org(density, 128,
      [pseudochannel |-> pseudo, bankgroup |-> 4, bank |-> bank, row |-> 2^row, column |-> 2^col])

HBM_org_presets ==
  ("HBM_1Gb" :> HBMOrg(1024, 1, 2, 13, 7)) @@ ("HBM_2Gb" :> HBMOrg(2048, 1, 2, 14, 7))
  @@ ("HBM_4Gb" :> HBMOrg(4096, 1, 4, 14, 7))

HBMTiming(nBL) ==
  [rate |-> 2000, nBL |-> nBL, nCL |-> 7, nRRDS |-> 2, nRRDL |-> 3, nFAW |-> 15, nRFC |-> Unset,
   nRFCSB |-> 160, nREFI |-> 3900, nREFISB |-> Unset, tCK_ps |-> 1000]

HBM_timing_presets == "HBM_2Gbps" :> HBMTiming(2)

HBM_set_organization(c) ==
  set_organization(c, HBM_org_presets, {"bankgroup", "bank"})

(* nREFISB is read from tRFC_TABLE, too.                                    *)
HBMRefresh(c, presets, org, garbage) ==
  LET load == Loaded(c, presets)
      tCK_ps == ClockPeriod(load.rate)
      density_id == CaseOf(org.density, <<2048, 4096, 8192, 16384>>)
      nRFC == JEDEC_rounding(Entry(<<160, 260, 350, 450>>, density_id, garbage), tCK_ps)
      vals == [load EXCEPT !.tCK_ps = tCK_ps, !.nRFC = nRFC, !.nREFISB = nRFC]
  IN Checked(c, presets, Overridden(c, vals, "JEDEC_rounding"))

HBM_set_timing_vals(c, org, garbage) == HBMRefresh(c, HBM_timing_presets, org, garbage)

HBM2_org_presets ==
  ("HBM2_2Gb" :> HBMOrg(2 * 1024, 2, 2, 14, 6)) @@ ("HBM2_4Gb" :> HBMOrg(4 * 1024, 2, 4, 14, 6))
  @@ ("HBM2_8Gb" :> HBMOrg(6 * 1024, 2, 4, 15, 6))

HBM2_timing_presets == "HBM2_2Gbps" :> HBMTiming(4)

HBM2_set_organization(c) ==
  set_organization(c, HBM2_org_presets, {"pseudochannel", "bankgroup", "bank"})

HBM2_set_timing_vals(c, org, garbage) == HBMRefresh(c, HBM2_timing_presets, org, garbage)

HBM3_org_presets ==
  ("HBM3_2Gb" :> HBMOrg(2 * 1024, 2, 4, 13, 6)) @@ ("HBM3_4Gb" :> HBMOrg(4 * 1024, 2, 4, 14, 6))
  @@ ("HBM3_8Gb" :> HBMOrg(6 * 1024, 2, 4, 15, 6))

HBM3_timing_presets == "HBM3_2Gbps" :> HBMTiming(4)

HBM3_set_organization(c) ==
  set_organization(c, HBM3_org_presets, {"pseudochannel", "bankgroup", "bank"})

HBM3_set_timing_vals(c, org, garbage) == HBMRefresh(c, HBM3_timing_presets, org, garbage)

-----------------------------------------------------------------------------
(* The AiM devices set the latencies of the AiM buffers and registers after *)
(* the user's value and the check.                                          *)
AiMLatencies ==
  [nCLREG |-> 0, nCLGB |-> 1, nCWLREG |-> 1, nCWLGB |-> 1, nWPRE |-> 1]

WithAiMLatencies(result) ==
  IF result.accepted THEN Accepted(AiMLatencies @@ result.is) ELSE result

LPDDROrg(density, channel, bg, bank, row) ==
  Org(density, 16, [channel |-> channel, bankgroup |-> bg, bank |-> bank,
                    row |-> 2^row, column |-> 2^10])

LPDDRTiming(rate, nRRD, nFAW, aim, tCK_ps) ==
  [rate |-> rate, nBL |-> 4, nCL |-> 20, nRRDS |-> nRRD, nFAW |-> nFAW, nRFC |-> Unset,
   nRFCpb |-> Unset, nREFI |-> Unset, nPBR2PBR |-> Unset, nPBR2ACT |-> Unset,
   tCK_ps |-> tCK_ps] @@ aim

NoAiMLatencies == [t \in DOMAIN AiMLatencies |-> 0]

(* The four refresh tables are indexed by density_id unseen.                *)
LPDDRRefresh(c, presets, org, garbage) ==
  LET load == Loaded(c, presets)
      tCK_ps == ClockPeriod(load.rate)
      density_id == CaseOf(org.density, <<2048, 4096, 8192, 16384>>)
      Cycles(table) == JEDEC_rounding(Entry(table, density_id, garbage), tCK_ps)
      vals == [load EXCEPT !.tCK_ps = tCK_ps,
                           !.nRFC = Cycles(<<130, 180, 210, 280>>),
                           !.nRFCpb = Cycles(<<60, 90, 120, 140>>),
                           !.nPBR2PBR = Cycles(<<60, 90, 90, 90>>),
                           !.nPBR2ACT = Cycles(<<8, 8, 8, 8>>),
                           !.nREFI = JEDEC_rounding(3906, tCK_ps)]
  IN WithAiMLatencies(Checked(c, presets, Overridden(c, vals, "JEDEC_rounding")))

LPDDR4_org_presets ==
  ("LPDDR4_2Gb_x16" :> LPDDROrg(2048, 1, 4, 4, 13)) @@ ("LPDDR4_4Gb_x16" :> LPDDROrg(4096, 1, 4, 4, 14))
  @@ ("LPDDR4_8Gb_x16" :> LPDDROrg(8192, 1, 4, 4, 15)) @@ ("LPDDR4_AiM_org" :> LPDDROrg(4096, 32, 1, 8, 15))

LPDDR4_timing_presets ==
  ("LPDDR4_3200" :> LPDDRTiming(3200, 16, 64, NoAiMLatencies, 625))
  @@ ("LPDDR4_AiM_timing" :> LPDDRTiming(3200, 16, 64, AiMLatencies, 625))

LPDDR4_set_organization(c) ==
  set_organization(c, LPDDR4_org_presets, {"bankgroup", "bank"})

LPDDR4_set_timing_vals(c, org, garbage) == LPDDRRefresh(c, LPDDR4_timing_presets, org, garbage)

LPDDR5_org_presets ==
  ("LPDDR5_2Gb_x16" :> LPDDROrg(2048, 1, 4, 4, 13)) @@ ("LPDDR5_4Gb_x16" :> LPDDROrg(4096, 1, 4, 4, 14))
  @@ ("LPDDR5_8Gb_x16" :> LPDDROrg(8192, 1, 4, 4, 15))
  @@ ("LPDDR5_16Gb_x16" :> LPDDROrg(16384, 1, 4, 4, 16))
  @@ ("LPDDR5_32Gb_x16" :> LPDDROrg(32768, 1, 4, 4, 17)) @@ ("LPDDR5_AiM_org" :> LPDDROrg(32768, 32, 4, 4, 17))

LPDDR5_timing_presets ==
  ("LPDDR5_6400" :> LPDDRTiming(6400, 4, 16, NoAiMLatencies, 1250))
  @@ ("LPDDR5_AiM_timing" :> LPDDRTiming(6400, 4, 16, AiMLatencies, 1250))

LPDDR5_set_organization(c) ==
  set_organization(c, LPDDR5_org_presets, {"bankgroup", "bank"})

LPDDR5_set_timing_vals(c, org, garbage) == LPDDRRefresh(c, LPDDR5_timing_presets, org, garbage)

-----------------------------------------------------------------------------
GDDR6_org_presets ==
  LET O(Gb, dq, ch, row, col) ==
        Org(1024 * Gb, dq, [channel |-> ch, bankgroup |-> 4, bank |-> 4, row |-> 2^row, column |-> 2^col])
  IN ("GDDR6_8Gb_x8" :> O(8, 8, 2, 14, 11)) @@ ("GDDR6_8Gb_x16" :> O(8, 16, 2, 14, 10))
     @@ ("GDDR6_16Gb_x8" :> O(16, 8, 2, 15, 11)) @@ ("GDDR6_16Gb_x16" :> O(16, 16, 2, 14, 11))
     @@ ("GDDR6_32Gb_x8" :> O(32, 8, 2, 16, 11)) @@ ("GDDR6_32Gb_x16" :> O(32, 16, 2, 15, 11))
     @@ ("GDDR6_AiM_org" :> O(128, 16, 32, 14, 10))

GDDR6_timing_presets ==
  LET T(nBL, nCL, nRRD, nFAW, tCK_ps) ==
        [rate |-> 2000, nBL |-> nBL, nCL |-> nCL, nRRDS |-> nRRD, nRRDL |-> nRRD, nFAW |-> nFAW,
         nRFC |-> 210, nREFI |-> 3333, tCK_ps |-> tCK_ps] @@ AiMLatencies
  IN ("GDDR6_2000_1350mV_double" :> T(8, 24, 7, 28, 570))
     @@ ("GDDR6_2000_1250mV_double" :> T(8, 24, 11, 42, 570))
     @@ ("GDDR6_2000_1350mV_quad" :> T(4, 24, 7, 28, 570))
     @@ ("GDDR6_2000_1250mV_quad" :> T(4, 24, 11, 42, 570))
     @@ ("GDDR6_AiM_timing" :> T(2, 50, 11, 42, 500))

GDDR6_set_organization(c) ==
  set_organization(c, GDDR6_org_presets, {"channel", "bankgroup", "bank"})

GDDR6_secondary(org, load) ==
  LET dq_id == CaseOf(org.dq, <<8, 16>>)
      rate_id == CaseOf(load.rate, <<2000>>)
  IN IF dq_id = 0 \/ rate_id = 0 THEN load
     ELSE [load EXCEPT !.nRRDS = <<4, 5>>[dq_id], !.nRRDL = <<5, 6>>[dq_id], !.nFAW = <<20, 28>>[dq_id]]

(* The clock period is that of the preset.                                  *)
GDDR6_set_timing_vals(c, org, garbage) ==
  LET load == Loaded(c, GDDR6_timing_presets)
      density_id == CaseOf(org.density, <<4096, 8192, 16384>>)
      vals == [GDDR6_secondary(org, load) EXCEPT
                 !.nRFC = JEDEC_rounding(Entry(<<260, 360, 550>>, density_id, garbage), load.tCK_ps),
                 !.nREFI = JEDEC_rounding(7800, load.tCK_ps)]
  IN WithAiMLatencies(Checked(c, GDDR6_timing_presets, Overridden(c, vals, "JEDEC_rounding")))
=============================================================================
