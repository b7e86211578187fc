-------------------------- MODULE MCNoteUSBModule --------------------------
(***************************************************************************)
(* An instance of NoteUSBModule for TLC: one HID device that the handler   *)
(* and two sessions of two clients contend for, with two handles, so that  *)
(* the third claim finds none left.                                        *)
(***************************************************************************)
EXTENDS NoteUSBModule, TLC

CONSTANTS d1, h1, h2, p1, p2, s1, s2

MCDevices == {d1}
MCHandles == {h1, h2}
MCClients == {p1, p2}
MCSessions == {s1, s2}

Symmetry ==
    Permutations(MCHandles) \cup Permutations(MCClients) \cup Permutations(MCSessions)
=============================================================================
