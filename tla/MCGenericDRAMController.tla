---------------------- MODULE MCGenericDRAMController ----------------------
(***************************************************************************)
(* Two ranks of DDR3 with a bank each; two rows of one of them are used and *)
(* one row of the other.                                                    *)
(***************************************************************************)
EXTENDS GenericDRAMController

MCV ==
  [nBL |-> 2, nCL |-> 3, nCWL |-> 2, nRCD |-> 2, nRCDRD |-> 2, nRCDWR |-> 1, nRP |-> 2,
   nRAS |-> 3, nRC |-> 5, nWR |-> 1, nRTP |-> 1, nRTPS |-> 1, nRTPL |-> 1,
   nCCD |-> 2, nCCDS |-> 1, nCCDL |-> 2, nCCDS_WR |-> 2, nCCDS_WTR |-> 4,
   nCCDL_WR |-> 2, nCCDL_WTR |-> 5, nRRD |-> 1, nRRDS |-> 1, nRRDL |-> 2,
   nWTR |-> 1, nWTRS |-> 1, nWTRL |-> 2, nFAW |-> 6, nRFC |-> 7, nRFCsb |-> 4,
   nRFM1 |-> 5, nRFMsb |-> 4, nDRFMab |-> 5, nDRFMsb |-> 4, nRREFD |-> 2,
   nVRR |-> 5, nCS |-> 1]

DDR == INSTANCE DRAMStandards WITH V <- MCV

MCOrg == [channel |-> 1, rank |-> 2, bank |-> 1, row |-> 2]

(* What is sent to the device is the controller's business.                 *)
MCDevice ==
  [name \in {"DDR3"} |->
     WithTree(DDR!DDR3 @@ [V |-> MCV, org |-> MCOrg, maxlog |-> 0,
                           requested |-> {"read", "write", "all-bank-refresh"}])]

MCAccess(rank, row) == [rank |-> rank, bank |-> 0, row |-> row, col |-> 0]

MCAccesses == {MCAccess(0, 0), MCAccess(0, 1), MCAccess(1, 0)}
=============================================================================
