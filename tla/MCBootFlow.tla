----------------------------- MODULE MCBootFlow -----------------------------
(***************************************************************************)
(* Small instances of BootFlow: representative images and floppies.          *)
(***************************************************************************)
EXTENDS BootFlow

Raw == [kind |-> "raw", newer |-> FALSE, stream |-> "stored", os |-> TRUE]
Pkg(stream, newer, os) == [kind |-> "pkg", newer |-> newer, stream |-> stream, os |-> os]

MCRomImages == {Pkg("good", FALSE, TRUE), Pkg("crc", FALSE, TRUE), Pkg("stored", FALSE, FALSE),
                Junk}

With(image) == [bpb |-> "usable", dir |-> TRUE, empty |-> FALSE, image |-> image]

MCDisks == {With(Raw), With(Pkg("good", FALSE, TRUE)), With(Pkg("nomem", FALSE, TRUE)),
            With(Pkg("stored", TRUE, TRUE)),
            [With(Raw) EXCEPT !.empty = TRUE], [With(Raw) EXCEPT !.dir = FALSE],
            [With(Raw) EXCEPT !.bpb = "unusable"], [With(Raw) EXCEPT !.bpb = "divides"]}
=============================================================================
