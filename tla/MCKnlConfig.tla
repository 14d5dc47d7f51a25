---------------------------- MODULE MCKnlConfig ----------------------------
(* Small instances of KnlConfig for TLC. *)
EXTENDS KnlConfig

Base == [f \in Fields |->
           CASE f = "VXLANDefaultDev" -> "a" [] f = "PVCStorageClass" -> "a"
             [] OTHER -> "nil"]

TargetOnly == {"knl-system/knlcfg"}

\* Two good specs that differ in what a Lab would see of them.
TwoSpecs == {Base, [Base EXCEPT !["SFTPSever"] = "a"]}

\* Good specs, the device map alone, and one that each check refuses.
AllSpecs == TwoSpecs \cup
  {[Base EXCEPT !["VXLANDefaultDev"] = "nil", !["VxDevMap"] = "a"],
   [Base EXCEPT !["VXLANDefaultDev"] = "blank"],
   [Base EXCEPT !["VXLANGrpAddr"] = "bad"],
   [Base EXCEPT !["PVCStorageClass"] = "nil"],
   [Base EXCEPT !["SRCPMLoaderImage"] = "a", !["SRIOMLoaderImage"] = "a"],
   [Base EXCEPT !["SRIOMLoaderImage"] = "bad"],
   [Base EXCEPT !["SRCPMLoaderImage"] = "blank"],
   [Base EXCEPT !["SideCarHookImg"] = "blank"],
   [Base EXCEPT !["SFTPSever"] = "bad"]}

=============================================================================
