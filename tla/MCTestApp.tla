----------------------------- MODULE MCTestApp -----------------------------
(* The flash image build_qemu_flash.py makes: factory with v1, one OTA slot,
   otadata erased.  The host may send v1, v2, or something that does not load. *)
EXTENDS TestApp

MCBlank == [program |-> "v1", intact |-> FALSE, version |-> NoDesc]
MCImages ==
  { MCBlank,
    [program |-> "v1", intact |-> TRUE, version |-> NoDesc],
    [program |-> "v2", intact |-> TRUE, version |-> NoDesc],
    [program |-> "v2", intact |-> TRUE, version |-> 0] }

MCLayouts ==
  { [valid |-> TRUE, apps |-> {FACTORY_INDEX, 0}, app_count |-> 1,
      otaInfo |-> TRUE, labelled |-> TRUE] }

ErasedOtaData == {BlankRead}

MCOtaDataInits == { BlankRead, [BlankRead EXCEPT ![1] = Sealed(1, "VALID")] }

\* As programmed at the factory: v1 in the factory partition.
MCSysInit ==
  /\ SysInit
  /\ image[FACTORY_INDEX].program = "v1" /\ image[FACTORY_INDEX].intact

MCSpec     == MCSysInit /\ [][SysNext]_sysVars
MCLiveSpec ==
  MCSpec /\ WF_sysVars(BootStep /\ UNCHANGED appVars) /\ WF_sysVars(AppStep)
=============================================================================
