---------------------------- MODULE MCBootloader ----------------------------
(* A small instance of Bootloader: two OTA slots, partition tables with and
   without gaps, and applications that leave every kind of otadata entry. *)
EXTENDS Bootloader

MCLayout(apps, n, info) ==
  [valid |-> TRUE, apps |-> apps, app_count |-> n, otaInfo |-> info, labelled |-> info]

\* Both slots; slot 0 missing, no factory app, and otadata under another label;
\* no otadata partition.
MCLayouts ==
  { MCLayout({FACTORY_INDEX, 0, 1}, 2, TRUE),
    [MCLayout({1}, 2, TRUE) EXCEPT !.labelled = FALSE],
    MCLayout({FACTORY_INDEX, 0}, 1, FALSE),
    [MCLayout(Parts, 2, TRUE) EXCEPT !.valid = FALSE] }

MCImages == { [intact |-> TRUE, version |-> NoDesc],
              [intact |-> TRUE, version |-> 0] }

\* Erased, chosen by an application, confirmed, beyond the slots, half written.
MCEntries ==
  { Erased, Sealed(1, "NEW"), Sealed(2, "VALID"), Sealed(1, "PENDING_VERIFY"),
    Sealed(0, "NEW"), [Sealed(2, "NEW") EXCEPT !.crcOk = FALSE] }

MCOtaDataInits == {BlankRead}

\* For the run with failing erases: fewer entries, a provisioned slot, a test app
\* and no slot 0, or slot 0 alone.
EndLayouts == { MCLayout({TEST_APP_INDEX, FACTORY_INDEX, 1}, 2, TRUE),
                MCLayout({FACTORY_INDEX, 0}, 1, TRUE),
                [MCLayout(Parts, 2, TRUE) EXCEPT !.valid = FALSE] }

EndEntries == { Sealed(1, "NEW"), Sealed(2, "PENDING_VERIFY") }

EndOtaDataInits == { BlankRead, [BlankRead EXCEPT ![0] = Sealed(2, "VALID")] }

\* What an unlisted partition holds is never looked at.
MCInit == Init /\ \A p \in Parts \ layout.apps : image[p].version = NoDesc

MCSpec     == MCInit /\ [][Next]_vars
MCLiveSpec == MCSpec /\ WF_vars(BootStep)
=============================================================================
